---- MODULE Spec2Model ----
(***************************************************************************)
(* Calendar-and-task side panel (jiujiu-obsidian-calendar).                *)
(*                                                                         *)
(* The model covers the task core of the plugin: task extraction from      *)
(* markdown notes (taskService.ts, regexUtils.ts), the filter-expression   *)
(* engine, the by-date and by-range task lists of CalendarView.ts, and     *)
(* the status toggle that writes a note back.                              *)
(*                                                                         *)
(* Strings are sequences of one-character strings, so that regular         *)
(* expressions, substring tests and tokenisation are computed character    *)
(* by character as the JavaScript does.  Instants are pairs <<day, ms>>:   *)
(* day is the number of days since 1970-01-01 UTC and ms the millisecond   *)
(* of that UTC day (the epoch millisecond count does not fit the model     *)
(* checker's integers).  The calendar emoji of the due-date token is       *)
(* written "%" (one character, as the regular expression treats it).       *)
(***************************************************************************)
EXTENDS Integers, Sequences, FiniteSets, TLC

VARIABLES
    tz,            \* host UTC offset in minutes (local = UTC + tz)
    vault,         \* app.vault: sequence of [path, content] in listing order
    tasks,         \* result of the last extractBasicTasks pass
    upd,           \* updateTaskInNote in flight: position, arguments, content read
    customFilter,  \* settings.taskFilter.customFilter
    filterDate,    \* the filterDate argument of filterTasks
    expression,    \* the expression filterTasks parsed from customFilter
    filtered,      \* the task list last computed by filterTasks or by a list refresh
    fpc,           \* position of the filterTasks caller
    currentDate,   \* CalendarView.currentDate: the date whose month is displayed
    selectedDate,  \* CalendarView.selectedDate (NoDate is null)
    taskStatusFilter, \* CalendarView.taskStatusFilter
    taskItems,     \* the .task-item rows of the .task-list element, in document order
    refresh,       \* the task-list refresh in flight or last finished
    readFails,     \* the paths of the files whose vault.read rejects
    ext,           \* extractBasicTasks in flight: position, file index, tasks pushed
    ptokens,       \* parseTokens: the tokens argument
    pindex,        \* parseTokens: the shared cursor `index` (0-based)
    pstack,        \* parseTokens: the frames of the calls in progress, innermost last
    pret,          \* parseTokens: the node last returned
    pmode,         \* parseTokens: what the parser does next
    darg,          \* the Date argument of a dateUtils call
    dcall,         \* the dateUtils function called last
    dout,          \* what it returned
    inflight,      \* the task-list refreshes in flight, oldest first
    sameDate,      \* this.selectedDate and this.currentDate are one Date object
    toggle,        \* handleTaskToggle: the row toggled and the task handed on
    ops,           \* the note writers (updateTaskInNote, createTaskInNote) in flight
    cells,         \* the day cells of the calendar table with their indicators
    scan           \* taskRegex.lastIndex and the extraction passes sharing it

noteVars   == <<vault, tasks, upd>>
filterVars == <<customFilter, filterDate, expression, filtered, fpc>>
viewVars   == <<currentDate, selectedDate, taskStatusFilter, taskItems, refresh>>
parseVars  == <<ptokens, pindex, pstack, pret, pmode>>
dateVars   == <<darg, dcall, dout>>
extractVars == <<readFails, ext>>
lateVars   == <<inflight, sameDate, toggle, ops, cells, scan>>
moreVars   == <<extractVars, parseVars, dateVars, lateVars>>
vars       == <<tz, vault, tasks, upd, customFilter, filterDate, expression, filtered, fpc,
                currentDate, selectedDate, taskStatusFilter, taskItems, refresh,
                readFails, ext, ptokens, pindex, pstack, pret, pmode, darg, dcall, dout,
                inflight, sameDate, toggle, ops, cells, scan>>

----------------------------------------------------------------------------
(* Strings                                                                 *)

Min(a, b) == IF a < b THEN a ELSE b
Max(a, b) == IF a > b THEN a ELSE b

NL == "\n"

RECURSIVE Flatten(_)
\* Concatenation of a sequence of strings.
Flatten(ss) == IF ss = <<>> THEN <<>> ELSE Head(ss) \o Flatten(Tail(ss))

RECURSIVE JoinWith(_, _)
\* Array.prototype.join / the lines of a note joined by a separator.
JoinWith(ss, sep) ==
    IF ss = <<>> THEN <<>>
    ELSE IF Len(ss) = 1 THEN ss[1]
    ELSE ss[1] \o sep \o JoinWith(Tail(ss), sep)

\* s.startsWith(p)
StartsWith(s, p) == Len(p) <= Len(s) /\ SubSeq(s, 1, Len(p)) = p

\* s.indexOf(p), 1-based; 0 when p does not occur.
IndexOf(s, p) ==
    LET hits == {i \in 1..(Len(s) - Len(p) + 1) : SubSeq(s, i, i + Len(p) - 1) = p}
    IN  IF hits = {} THEN 0 ELSE CHOOSE i \in hits : \A j \in hits : i <= j

\* s.includes(p)
Includes(s, p) == IndexOf(s, p) # 0

WhiteSpace == {" ", "\t", NL}

RECURSIVE TrimLeft(_)
TrimLeft(s) == IF s # <<>> /\ Head(s) \in WhiteSpace THEN TrimLeft(Tail(s)) ELSE s

RECURSIVE TrimRight(_)
TrimRight(s) ==
    IF s # <<>> /\ s[Len(s)] \in WhiteSpace THEN TrimRight(SubSeq(s, 1, Len(s) - 1)) ELSE s

\* String.prototype.trim
Trim(s) == TrimRight(TrimLeft(s))

\* String.prototype.replace(pattern: string, replacement): first occurrence only.
ReplaceFirstString(s, p, r) ==
    LET i == IndexOf(s, p)
    IN  IF i = 0 THEN s
        ELSE SubSeq(s, 1, i - 1) \o r \o SubSeq(s, i + Len(p), Len(s))

DigitChars == <<"0", "1", "2", "3", "4", "5", "6", "7", "8", "9">>
Digits == {DigitChars[i] : i \in 1..10}
DigitVal(c) == (CHOOSE i \in 1..10 : DigitChars[i] = c) - 1

RECURSIVE ToNumber(_)
\* Decimal value of a digit string.
ToNumber(s) == IF s = <<>> THEN 0 ELSE 10 * ToNumber(SubSeq(s, 1, Len(s) - 1)) + DigitVal(s[Len(s)])

RECURSIVE ToDecimal(_)
\* String(n) for n >= 0.
ToDecimal(n) == IF n < 10 THEN <<DigitChars[n + 1]>> ELSE ToDecimal(n \div 10) \o <<DigitChars[(n % 10) + 1]>>

\* toLowerCase on the letters the patterns test.
LowerOf(c) == CASE c = "X" -> "x" [] c = "D" -> "d" [] c = "U" -> "u" [] c = "E" -> "e" [] OTHER -> c

----------------------------------------------------------------------------
(* Regular expressions: a backtracking matcher for the constructs the      *)
(* plugin's patterns use (anchors with the m flag, classes, greedy *, +,   *)
(* ?, the counts {4} and {1,2}, capture of a single quantified atom).  An  *)
(* atom is an anchor or a character test [cs, neg] with a quantifier q     *)
(* and a capture number cap.                                               *)

Bol == [k |-> "bol", cs |-> {}, neg |-> FALSE, q |-> "1", cap |-> 0]
Eol == [k |-> "eol", cs |-> {}, neg |-> FALSE, q |-> "1", cap |-> 0]
Atom(cs, neg, q, cap) == [k |-> "ch", cs |-> cs, neg |-> neg, q |-> q, cap |-> cap]
Lit(c) == Atom({c}, FALSE, "1", 0)
\* A literal under the i flag.
LitI(c) == Atom({c, LowerOf(c)} \cup {u \in {"X", "D", "U", "E"} : LowerOf(u) = c}, FALSE, "1", 0)
RECURSIVE LitSeq(_)
LitSeq(s) == IF s = <<>> THEN <<>> ELSE <<Lit(Head(s))>> \o LitSeq(Tail(s))

AtomOk(a, c) == (c \in a.cs) # a.neg

RECURSIVE Run(_, _, _)
\* How many consecutive characters from pos the atom accepts.
Run(a, s, pos) == IF pos <= Len(s) /\ AtomOk(a, s[pos]) THEN 1 + Run(a, s, pos + 1) ELSE 0

NoCaps == <<<<0, 0>>, <<0, 0>>, <<0, 0>>>>
Fail == [ok |-> FALSE, end |-> 0, caps |-> NoCaps]

RECURSIVE MatchFrom(_, _, _, _, _)
RECURSIVE TryCount(_, _, _, _, _, _, _)
\* Match atoms k.. of the pattern against s at position pos (1-based).
MatchFrom(atoms, k, s, pos, caps) ==
    IF k > Len(atoms) THEN [ok |-> TRUE, end |-> pos, caps |-> caps]
    ELSE LET a == atoms[k] IN
         CASE a.k = "bol" ->
                IF pos = 1 \/ s[pos - 1] = NL
                THEN MatchFrom(atoms, k + 1, s, pos, caps) ELSE Fail
           [] a.k = "eol" ->
                IF pos = Len(s) + 1 \/ s[pos] = NL
                THEN MatchFrom(atoms, k + 1, s, pos, caps) ELSE Fail
           [] OTHER ->
                LET avail == Run(a, s, pos)
                    hi == CASE a.q \in {"1", "?"} -> Min(avail, 1)
                            [] a.q = "{1,2}" -> Min(avail, 2)
                            [] a.q = "{4}" -> Min(avail, 4)
                            [] OTHER -> avail
                    lo == CASE a.q \in {"1", "+", "{1,2}"} -> 1
                            [] a.q = "{4}" -> 4
                            [] OTHER -> 0
                IN  IF hi < lo THEN Fail ELSE TryCount(atoms, k, s, pos, caps, hi, lo)

\* Greedy quantifier: the longest count first, backtracking down to lo.
TryCount(atoms, k, s, pos, caps, n, lo) ==
    LET caps2 == IF atoms[k].cap > 0
                 THEN [caps EXCEPT ![atoms[k].cap] = <<pos, pos + n>>] ELSE caps
        r == MatchFrom(atoms, k + 1, s, pos + n, caps2)
    IN  IF r.ok THEN r
        ELSE IF n > lo THEN TryCount(atoms, k, s, pos, caps, n - 1, lo)
        ELSE Fail

NoMatch == [found |-> FALSE, index |-> 0, end |-> 0, caps |-> NoCaps]

RECURSIVE Exec(_, _, _)
\* RegExp.prototype.exec from position `from` (1-based): the leftmost match.
Exec(atoms, s, from) ==
    IF from > Len(s) + 1 THEN NoMatch
    ELSE LET r == MatchFrom(atoms, 1, s, from, NoCaps)
         IN  IF r.ok THEN [found |-> TRUE, index |-> from, end |-> r.end, caps |-> r.caps]
             ELSE Exec(atoms, s, from + 1)

\* The text of capture group g of a match.
Group(s, m, g) == SubSeq(s, m.caps[g][1], m.caps[g][2] - 1)
\* The whole matched text.
Matched(s, m) == SubSeq(s, m.index, m.end - 1)

----------------------------------------------------------------------------
(* Dates.  A Date value is [has, valid, day, ms]: has = FALSE is           *)
(* `undefined`, valid = FALSE an Invalid Date (NaN), otherwise the UTC     *)
(* instant <<day, ms>>.                                                    *)

MsPerMinute == 60 * 1000
MsPerDay == 24 * 60 * MsPerMinute

NoDate == [has |-> FALSE, valid |-> FALSE, day |-> 0, ms |-> 0]
InvalidDate == [has |-> TRUE, valid |-> FALSE, day |-> 0, ms |-> 0]
Instant(day, ms) == [has |-> TRUE, valid |-> TRUE, day |-> day, ms |-> ms]

\* Relational comparison of two Date objects (by time value; NaN compares false).
DateGT(a, b) == a.valid /\ b.valid /\ (a.day > b.day \/ (a.day = b.day /\ a.ms > b.ms))
DateGE(a, b) == a.valid /\ b.valid /\ (a.day > b.day \/ (a.day = b.day /\ a.ms >= b.ms))
DateLE(a, b) == DateGE(b, a)

\* Days since 1970-01-01 of the proleptic Gregorian date y-m-d (m in 1..12).
DaysFromCivil(y, m, d) ==
    LET yy  == IF m <= 2 THEN y - 1 ELSE y
        era == yy \div 400
        yoe == yy - era * 400
        mp  == IF m > 2 THEN m - 3 ELSE m + 9
        doy == (153 * mp + 2) \div 5 + d - 1
        doe == yoe * 365 + yoe \div 4 - yoe \div 100 + doy
    IN  era * 146097 + doe - 719468

\* The Gregorian date [y, m, d] of a day number.
CivilFromDays(z) ==
    LET zz  == z + 719468
        era == zz \div 146097
        doe == zz - era * 146097
        yoe == (doe - doe \div 1460 + doe \div 36524 - doe \div 146096) \div 365
        doy == doe - (365 * yoe + yoe \div 4 - yoe \div 100)
        mp  == (5 * doy + 2) \div 153
        d   == doy - (153 * mp + 2) \div 5 + 1
        m   == IF mp < 10 THEN mp + 3 ELSE mp - 9
    IN  [y |-> yoe + era * 400 + (IF m <= 2 THEN 1 ELSE 0), m |-> m, d |-> d]

IsLeap(y) == (y % 4 = 0 /\ y % 100 # 0) \/ y % 400 = 0
DaysInMonth(y, m) ==
    IF m = 2 THEN (IF IsLeap(y) THEN 29 ELSE 28)
    ELSE IF m \in {4, 6, 9, 11} THEN 30 ELSE 31

\* The instant shifted by a number of milliseconds (|delta| below two days).
AddMs(t, delta) ==
    LET total == t.ms + delta
    IN  Instant(t.day + total \div MsPerDay, total % MsPerDay)

\* The local wall clock of an instant on a host at UTC offset zone: the local
\* day number and the millisecond of that local day.
LocalOf(t, zone) == AddMs(t, zone * MsPerMinute)
\* The instant at which a local wall clock <<localDay, localMs>> occurs.
FromLocal(localDay, localMs, zone) == AddMs(Instant(localDay, localMs), 0 - zone * MsPerMinute)

\* getFullYear / getMonth (0-based) / getDate of a Date, in local time.
GetFullYear(t, zone) == CivilFromDays(LocalOf(t, zone).day).y
GetMonth(t, zone)    == CivilFromDays(LocalOf(t, zone).day).m - 1
GetDate(t, zone)     == CivilFromDays(LocalOf(t, zone).day).d

\* new Date(year, monthIndex, day): local midnight; monthIndex and day may
\* overflow (monthIndex 12, day 0) and are normalised as MakeDay does.
NewDateYMD(year, monthIndex, day, zone) ==
    LET y == year + monthIndex \div 12
        m == (monthIndex % 12) + 1
    IN  FromLocal(DaysFromCivil(y, m, 1) + day - 1, 0, zone)

\* new Date("YYYY-MM-DD"): a date-only ISO string is taken as UTC midnight;
\* a string that names no calendar date gives an Invalid Date.
NewDateISO(str) ==
    LET y == ToNumber(SubSeq(str, 1, 4))
        m == ToNumber(SubSeq(str, 6, 7))
        d == ToNumber(SubSeq(str, 9, 10))
    IN  IF m \in 1..12 /\ d >= 1 /\ d <= DaysInMonth(y, m)
        THEN Instant(DaysFromCivil(y, m, d), 0)
        ELSE InvalidDate

\* date.setHours(h, mi, s, ms) on a copy: same local day, given local time.
SetHours(t, h, mi, s, ms, zone) ==
    FromLocal(LocalOf(t, zone).day, ((h * 60 + mi) * 60 + s) * 1000 + ms, zone)

----------------------------------------------------------------------------
(* regexUtils.ts                                                           *)

SpecialChars == {".", "*", "+", "?", "^", "$", "{", "}", "(", ")", "|", "[", "]", "\\"}

RECURSIVE escapeRegExp(_)
\* string.replace(/[.*+?^${}()|[\]\\]/g, '\\$&')
escapeRegExp(s) ==
    IF s = <<>> THEN <<>>
    ELSE (IF Head(s) \in SpecialChars THEN <<"\\", Head(s)>> ELSE <<Head(s)>>)
         \o escapeRegExp(Tail(s))

AnyChar(q, cap) == Atom({NL}, TRUE, q, cap)       \* .
Space(q) == Atom(WhiteSpace, FALSE, q, 0)          \* \s
Digit == Atom(Digits, FALSE, "1", 0)               \* \d

\* /^\s*-\s*\[(.)\]\s*(.+)$/gm
taskRegex ==
    <<Bol, Space("*"), Lit("-"), Space("*"), Lit("["), AnyChar("1", 1), Lit("]"),
      Space("*"), AnyChar("+", 2), Eol>>

\* (\d{4}-\d{2}-\d{2})
DatePattern ==
    <<Digit, Digit, Digit, Digit, Lit("-"), Digit, Digit, Lit("-"), Digit, Digit>>

\* /(?:[@#]|due:\s?|%\s?)(\d{4}-\d{2}-\d{2})/i, one atom list per alternative.
dueDateRegex ==
    << <<Atom({"@", "#"}, FALSE, "1", 0)>> \o DatePattern,
       <<LitI("d"), LitI("u"), LitI("e"), Lit(":"), Space("?")>> \o DatePattern,
       <<Lit("%"), Space("?")>> \o DatePattern >>

\* rawText.match(dueDateRegex): the leftmost match over the alternatives,
\* the earlier alternative winning at the same position.
MatchDueDate(s) ==
    LET ms   == [a \in 1..3 |-> Exec(dueDateRegex[a], s, 1)]
        hits == {a \in 1..3 : ms[a].found}
    IN  IF hits = {} THEN NoMatch
        ELSE ms[CHOOSE a \in hits :
                   \A b \in hits : ms[a].index < ms[b].index
                                   \/ (ms[a].index = ms[b].index /\ a <= b)]

\* dateMatch[1]: the ten characters of the date group.
DueDateText(s, m) == SubSeq(s, m.end - 10, m.end - 1)

----------------------------------------------------------------------------
(* taskService.ts: extraction                                              *)

\* The Task built from one match of taskRegex in the content of file path.
TaskOfMatch(path, content, m) ==
    LET status    == Group(content, m, 1)
        rawText   == Trim(Group(content, m, 2))
        dateMatch == MatchDueDate(rawText)
    IN  [text      |-> rawText,
         completed |-> (LowerOf(status[1]) = "x"),
         filePath  |-> path,
         dueDate   |-> IF dateMatch.found THEN NewDateISO(DueDateText(rawText, dateMatch))
                       ELSE NoDate,
         rawText   |-> rawText]

RECURSIVE TasksOfContent(_, _, _)
\* The while loop over taskRegex.exec(content), from lastIndex (0-based) on.
TasksOfContent(path, content, lastIndex) ==
    LET m == Exec(taskRegex, content, lastIndex + 1)
    IN  IF ~m.found THEN <<>>
        ELSE <<TaskOfMatch(path, content, m)>> \o TasksOfContent(path, content, m.end - 1)

RECURSIVE extractBasicTasks(_)
\* The loop over getMarkdownFiles(), each file scanned from its beginning.
extractBasicTasks(files) ==
    IF files = <<>> THEN <<>>
    ELSE TasksOfContent(files[1].path, files[1].content, 0) \o extractBasicTasks(Tail(files))

\* One pass of the for loop without the try block: a read that rejects
\* is thrown out of the call.
ReadFileNoCatch(file, failing) ==
    IF file.path \in failing THEN [pushed |-> <<>>, thrown |-> TRUE]
    ELSE [pushed |-> TasksOfContent(file.path, file.content, 0), thrown |-> FALSE]

\* One pass of the for loop of extractBasicTasks over `file`, when the reads
\* of the paths in `failing` reject: the tasks the pass pushes and whether
\* an error leaves the call.  A rejected read is caught in the pass and
\* logged; nothing in the try block after the read throws.
ReadFile(file, failing) ==
    IF file.path \in failing THEN [pushed |-> <<>>, thrown |-> FALSE]
    ELSE [pushed |-> TasksOfContent(file.path, file.content, 0), thrown |-> FALSE]

\* No extractBasicTasks call is under way.
NoExtract == [pc |-> "idle", index |-> 0, tasks |-> <<>>]

----------------------------------------------------------------------------
(* taskService.ts: updateTaskInNote                                        *)

RECURSIVE TemplateCooked(_)
\* The cooked value of an untagged template literal's text: a backslash
\* before a character that starts no escape sequence is dropped (`\s` is
\* "s", `\[` is "["); \n, \t and \\ are the usual escapes.
TemplateCooked(raw) ==
    IF raw = <<>> THEN <<>>
    ELSE IF Head(raw) = "\\" /\ Len(raw) >= 2
         THEN <<CASE raw[2] = "n" -> NL [] raw[2] = "t" -> "\t" [] OTHER -> raw[2]>>
              \o TemplateCooked(SubSeq(raw, 3, Len(raw)))
         ELSE <<Head(raw)>> \o TemplateCooked(Tail(raw))

\* The literal text of the template before ${escapeRegExp(task.rawText)}:
\* ^\s*-\s*\[(.)\]\s*
UpdateTemplateText ==
    <<"^", "\\", "s", "*", "-", "\\", "s", "*", "\\", "[", "(", ".", ")", "\\", "]",
      "\\", "s", "*">>

\* The atom a backslash escape denotes in a pattern.
EscapeAtom(c) ==
    CASE c = "s" -> Space("1") [] c = "d" -> Digit [] OTHER -> Lit(c)

\* The position of the "]" closing the class opened at i.
ClassEnd(p, i) == CHOOSE j \in (i + 1)..Len(p) : p[j] = "]" /\ \A h \in (i + 1)..(j - 1) : p[h] # "]"

RECURSIVE CompileFrom(_, _)
\* new RegExp(p, 'm') for the patterns updateTaskInNote builds: anchors,
\* escapes, classes, `.`, literals and a quantifier after an atom.  (Such a
\* pattern holds no group or alternation: escapeRegExp escapes them in
\* rawText and the cooked template text holds "(" and ")" inside a class.)
CompileFrom(p, i) ==
    IF i > Len(p) THEN <<>>
    ELSE LET c == p[i]
             base == CASE c = "^"  -> [a |-> Bol, n |-> i + 1]
                       [] c = "$"  -> [a |-> Eol, n |-> i + 1]
                       [] c = "."  -> [a |-> AnyChar("1", 0), n |-> i + 1]
                       [] c = "\\" -> [a |-> EscapeAtom(p[i + 1]), n |-> i + 2]
                       [] c = "["  -> [a |-> Atom({p[j] : j \in (i + 1)..(ClassEnd(p, i) - 1)},
                                                  FALSE, "1", 0),
                                       n |-> ClassEnd(p, i) + 1]
                       [] OTHER    -> [a |-> Lit(c), n |-> i + 1]
             q == IF base.n <= Len(p) /\ p[base.n] \in {"*", "+", "?"} THEN p[base.n] ELSE "1"
         IN  <<[base.a EXCEPT !.q = q]>>
             \o CompileFrom(p, IF q = "1" THEN base.n ELSE base.n + 1)

CompileRegExp(p) == CompileFrom(p, 1)

\* The regular expression of updateTaskInNote for a task.
UpdateRegExp(task) ==
    CompileRegExp(TemplateCooked(UpdateTemplateText) \o escapeRegExp(task.rawText))

\* The replacer callback (match, status): the pattern has no capture group,
\* so its second argument is the match's offset in the content.
StatusReplacer(match, status, completed) ==
    ReplaceFirstString(match, <<"[">> \o status \o <<"]">>,
                       IF completed THEN <<"[", "x", "]">> ELSE <<"[", " ", "]">>)

\* newContent = content.replace(taskRegex, replacer): the first match only.
UpdatedContent(content, task, completed) ==
    LET m == Exec(UpdateRegExp(task), content, 1)
    IN  IF ~m.found THEN content
        ELSE SubSeq(content, 1, m.index - 1)
             \o StatusReplacer(Matched(content, m), ToDecimal(m.index - 1), completed)
             \o SubSeq(content, m.end, Len(content))

\* app.vault.getAbstractFileByPath(path): the index of the file, 0 if none.
FileIndex(files, path) ==
    IF \E i \in 1..Len(files) : files[i].path = path
    THEN CHOOSE i \in 1..Len(files) : files[i].path = path
    ELSE 0

----------------------------------------------------------------------------
(* taskService.ts: the filter-expression engine                            *)

RECURSIVE PadParens(_)
\* filterString.replace(/\(/g, ' ( ').replace(/\)/g, ' ) ')
PadParens(s) ==
    IF s = <<>> THEN <<>>
    ELSE (IF Head(s) \in {"(", ")"} THEN <<" ", Head(s), " ">> ELSE <<Head(s)>>)
         \o PadParens(Tail(s))

RECURSIVE SplitSpaces(_, _)
\* normalizedString.split(/\s+/).filter(token => token.trim()): the maximal
\* runs of non-space characters; cur is the token being read.
SplitSpaces(s, cur) ==
    IF s = <<>> THEN (IF cur = <<>> THEN <<>> ELSE <<cur>>)
    ELSE IF Head(s) \in WhiteSpace
         THEN (IF cur = <<>> THEN <<>> ELSE <<cur>>) \o SplitSpaces(Tail(s), <<>>)
         ELSE SplitSpaces(Tail(s), Append(cur, Head(s)))

tokenizeFilterNoPad(filterString) == SplitSpaces(filterString, <<>>)

tokenizeFilter(filterString) == SplitSpaces(PadParens(filterString), <<>>)

AndTok == <<"a", "n", "d">>
OrTok  == <<"o", "r">>
Open   == <<"(">>
Close  == <<")">>

RuleNode(type, value, isTag) ==
    [type |-> "rule", rule |-> [type |-> type, value |-> value, isTag |-> isTag]]
LogicalNode(operator, left, right) ==
    [type |-> "logical", operator |-> operator, left |-> left, right |-> right]
GroupNode(expressions) == [type |-> "group", expressions |-> expressions]
NullNode == [type |-> "null"]

\* parseRule that looks for the `#` before it strips the `!`.
parseRuleTagFirst(tokens, index) ==
    LET token == IF index <= Len(tokens) THEN tokens[index] ELSE <<>>
        isTag == StartsWith(token, <<"#">>)
        v1    == IF isTag THEN Tail(token) ELSE token
        excl  == StartsWith(v1, <<"!">>)
        v2    == IF excl THEN Tail(v1) ELSE v1
    IN  [node  |-> RuleNode(IF excl THEN "exclude" ELSE "include", v2, isTag),
         index |-> index + 1]

\* parseRule without its index++.
parseRuleStuck(tokens, index) ==
    [node |-> RuleNode("include", <<>>, FALSE), index |-> index]

\* parseRule: the token at the cursor (the empty string past the end) as a
\* rule; the cursor always advances.  The cursor is 1-based here.
parseRule(tokens, index) ==
    LET token == IF index <= Len(tokens) THEN tokens[index] ELSE <<>>
        excl  == StartsWith(token, <<"!">>)
        v1    == IF excl THEN Tail(token) ELSE token
        isTag == StartsWith(v1, <<"#">>)
        v2    == IF isTag THEN Tail(v1) ELSE v1
    IN  [node  |-> RuleNode(IF excl THEN "exclude" ELSE "include", v2, isTag),
         index |-> index + 1]

RECURSIVE parseLogicalExpression(_, _)
RECURSIVE LogicalLoop(_, _, _)
RECURSIVE parsePrimaryExpression(_, _)
RECURSIVE GroupLoop(_, _, _)

\* parseLogicalExpression: a primary, then (operator primary)* folded to the left.
parseLogicalExpression(tokens, index) ==
    LET l == parsePrimaryExpression(tokens, index)
    IN  LogicalLoop(tokens, l.node, l.index)

\* The loop folding to the right: the rest of the chain is the right operand.
LogicalLoopRight(tokens, left, index) ==
    IF index <= Len(tokens) /\ tokens[index] \in {AndTok, OrTok}
    THEN LET r == parseLogicalExpression(tokens, index + 1)
         IN  [node |-> LogicalNode(tokens[index], left, r.node), index |-> r.index]
    ELSE [node |-> left, index |-> index]

LogicalLoop(tokens, left, index) ==
    IF index <= Len(tokens) /\ tokens[index] \in {AndTok, OrTok}
    THEN LET r == parsePrimaryExpression(tokens, index + 1)
         IN  LogicalLoop(tokens, LogicalNode(tokens[index], left, r.node), r.index)
    ELSE [node |-> left, index |-> index]

\* parsePrimaryExpression: "(" expression* ")" as a group, else a rule.
parsePrimaryExpression(tokens, index) ==
    IF index <= Len(tokens) /\ tokens[index] = Open
    THEN LET g == GroupLoop(tokens, index + 1, <<>>)
         IN  [node  |-> GroupNode(g.expressions),
              index |-> IF g.index <= Len(tokens) /\ tokens[g.index] = Close
                        THEN g.index + 1 ELSE g.index]
    ELSE parseRule(tokens, index)

\* while (index < tokens.length && tokens[index] !== ')') expressions.push(parseExpression())
GroupLoop(tokens, index, expressions) ==
    IF index <= Len(tokens) /\ tokens[index] # Close
    THEN LET e == parseLogicalExpression(tokens, index)
         IN  GroupLoop(tokens, e.index, Append(expressions, e.node))
    ELSE [expressions |-> expressions, index |-> index]

\* parseTokens returns parseExpression() from cursor 0; what follows the
\* first expression is not read.
parseTokens(tokens) == parseLogicalExpression(tokens, 1).node

parseCustomFilterNoGuard(filterString) == parseTokens(tokenizeFilter(filterString))

parseCustomFilter(filterString) ==
    IF Trim(filterString) = <<>> THEN NullNode
    ELSE IF Len(tokenizeFilter(filterString)) = 0 THEN NullNode
    ELSE parseTokens(tokenizeFilter(filterString))

matchFilterRuleNoSlash(task, rule) ==
    IF rule.isTag THEN Includes(task.rawText, <<"#">> \o rule.value)
    ELSE StartsWith(task.filePath, rule.value)

matchFilterRuleNoEqual(task, rule) ==
    IF rule.isTag THEN Includes(task.rawText, <<"#">> \o rule.value)
    ELSE StartsWith(task.filePath, rule.value \o <<"/">>)

matchFilterRule(task, rule) ==
    IF rule.isTag
    THEN Includes(task.rawText, <<"#">> \o rule.value)
    ELSE StartsWith(task.filePath, rule.value \o <<"/">>) \/ task.filePath = rule.value

LogicalResultSwapped(operator, leftResult, rightResult) ==
    IF operator = AndTok THEN leftResult \/ rightResult ELSE leftResult /\ rightResult

\* if (node.operator === 'and') leftResult && rightResult else leftResult || rightResult
LogicalResult(operator, leftResult, rightResult) ==
    IF operator = AndTok THEN leftResult /\ rightResult ELSE leftResult \/ rightResult

GroupResultAll(results) == \A i \in 1..Len(results) : results[i]

\* node.expressions.some(...) for a group with children; true for none.
GroupResult(results) ==
    IF Len(results) > 0 THEN \E i \in 1..Len(results) : results[i] ELSE TRUE

RECURSIVE evaluateExpression(_, _)
evaluateExpression(task, node) ==
    CASE node.type = "rule" ->
            IF node.rule.type = "include" THEN matchFilterRule(task, node.rule)
            ELSE ~matchFilterRule(task, node.rule)
      [] node.type = "logical" ->
            LogicalResult(node.operator, evaluateExpression(task, node.left),
                          evaluateExpression(task, node.right))
      [] node.type = "group" ->
            GroupResult([i \in 1..Len(node.expressions) |->
                            evaluateExpression(task, node.expressions[i])])
      [] OTHER -> TRUE

DueAfterOrAt(dueDate, endOfDay) == DateGE(dueDate, endOfDay)

\* task.dueDate > endOfDay
DueAfter(dueDate, endOfDay) == DateGT(dueDate, endOfDay)

\* The predicate of tasks.filter in filterTasks.
KeepTask(task, expr, date, zone) ==
    IF task.dueDate.has /\ DueAfter(task.dueDate, SetHours(date, 23, 59, 59, 999, zone))
    THEN FALSE
    ELSE IF expr.type = "null" THEN TRUE
    ELSE evaluateExpression(task, expr)

filterTasks(taskList, filterString, date, zone) ==
    LET expr == parseCustomFilter(filterString)
        Keep(task) == KeepTask(task, expr, date, zone)
    IN  SelectSeq(taskList, Keep)

----------------------------------------------------------------------------
(* CalendarView.ts: the ranges of the header and week-number clicks, the   *)
(* by-date and by-range task lists, and the rows of the task list.         *)

\* date.getDay(): 0 is Sunday (1970-01-01 was a Thursday).
GetDay(t, zone) == (LocalOf(t, zone).day + 4) % 7

\* d.setDate(d.getDate() + k): k local days later, same local time of day.
SetDateBy(t, k, zone) ==
    FromLocal(LocalOf(t, zone).day + k, LocalOf(t, zone).ms, zone)

\* The year click: new Date(year, 0, 1) and new Date(year, 11, 31).
YearRange(cur, zone) ==
    LET year == GetFullYear(cur, zone)
    IN  [startDate |-> NewDateYMD(year, 0, 1, zone),
         endDate   |-> NewDateYMD(year, 11, 31, zone)]

\* The quarter click: the first day of the quarter's first month and day 0
\* of the month after its last.
QuarterRange(cur, zone) ==
    LET year              == GetFullYear(cur, zone)
        quarter           == GetMonth(cur, zone) \div 3
        quarterStartMonth == quarter * 3
        quarterEndMonth   == quarter * 3 + 2
    IN  [startDate |-> NewDateYMD(year, quarterStartMonth, 1, zone),
         endDate   |-> NewDateYMD(year, quarterEndMonth + 1, 0, zone)]

\* The month click: new Date(year, month, 1) and new Date(year, month + 1, 0).
MonthRange(cur, zone) ==
    LET year  == GetFullYear(cur, zone)
        month == GetMonth(cur, zone)
    IN  [startDate |-> NewDateYMD(year, month, 1, zone),
         endDate   |-> NewDateYMD(year, month + 1, 0, zone)]

\* Days of the previous month shown in the first row of the month grid
\* (Monday is the first column).
PrevMonthDaysToShow(cur, zone) ==
    LET startDay == GetDay(NewDateYMD(GetFullYear(cur, zone), GetMonth(cur, zone), 1, zone), zone)
    IN  IF startDay = 0 THEN 6 ELSE startDay - 1

\* Number of week rows (and week-number cells) of the month grid.
RowsNeeded(cur, zone) ==
    (PrevMonthDaysToShow(cur, zone)
       + DaysInMonth(GetFullYear(cur, zone), GetMonth(cur, zone) + 1) + 6) \div 7

\* The click on the week-number cell of row index (0-based): the Monday of
\* the row and the day six days later.
WeekRange(cur, index, zone) ==
    LET daysPassed    == index * 7 - PrevMonthDaysToShow(cur, zone)
        weekStartDate == NewDateYMD(GetFullYear(cur, zone), GetMonth(cur, zone),
                                    1 + daysPassed, zone)
        dayOfWeek     == GetDay(weekStartDate, zone)
        adjustedDate  == SetDateBy(weekStartDate,
                                   (IF dayOfWeek = 0 THEN 0 - 6 ELSE 1) - dayOfWeek, zone)
    IN  [startDate |-> adjustedDate, endDate |-> SetDateBy(adjustedDate, 6, zone)]

\* The predicate of allTasks.filter in renderTaskListByDateRange.
InDateRange(task, startDate, endDate) ==
    IF ~task.dueDate.has THEN FALSE
    ELSE DateGE(task.dueDate, startDate) /\ DateLE(task.dueDate, endDate)

\* The status pass of both lists.
StatusFilter(taskList, status) ==
    LET Todo(task) == ~task.completed
        Done(task) == task.completed
    IN  IF status = "todo" THEN SelectSeq(taskList, Todo)
        ELSE IF status = "done" THEN SelectSeq(taskList, Done)
        ELSE taskList

\* renderTaskList: the tasks handed to updateTaskListItems.
TasksByDate(allTasks, filterString, date, status, zone) ==
    StatusFilter(filterTasks(allTasks, filterString, date, zone), status)

\* renderTaskListByDateRange: the tasks handed to updateTaskListItems.
TasksByDateRange(allTasks, startDate, endDate, status) ==
    LET Keep(task) == InDateRange(task, startDate, endDate)
    IN  StatusFilter(SelectSeq(allTasks, Keep), status)

\* `${task.text}-${task.filePath}`
TaskId(text, filePath) == text \o <<"-">> \o filePath

\* Map.set on a map kept as its entries in insertion order.
MapSet(map, key, task) ==
    IF \E i \in 1..Len(map) : map[i].key = key
    THEN [i \in 1..Len(map) |-> IF map[i].key = key THEN [key |-> key, task |-> task] ELSE map[i]]
    ELSE Append(map, [key |-> key, task |-> task])

MapHas(map, key) == \E i \in 1..Len(map) : map[i].key = key
MapGet(map, key) == map[CHOOSE i \in 1..Len(map) : map[i].key = key].task
MapDelete(map, key) == LET Other(e) == e.key # key IN SelectSeq(map, Other)

RECURSIVE NewTaskMap(_, _)
\* tasks.forEach(task => newTaskMap.set(taskId, task))
NewTaskMap(taskList, map) ==
    IF taskList = <<>> THEN map
    ELSE NewTaskMap(Tail(taskList),
                    MapSet(map, TaskId(taskList[1].text, taskList[1].filePath), taskList[1]))

\* A .task-item row: the text of its .task-text, the path in its hidden
\* .task-file, whether its checkbox is checked, and the value its change
\* listener reads from the variable taskIndex when it runs.
TaskItem(task, taskIndex) ==
    [text |-> task.text, filePath |-> task.filePath, checked |-> task.completed,
     taskIndex |-> taskIndex]

RECURSIVE KeepItems(_, _, _)
\* The loop over the current rows: a row whose id is in the map stays, with
\* its checkbox set from the task, and the id leaves the map; any other row
\* is removed.  Yields the rows kept and the map that is left.
KeepItems(items, map, tasksToKeep) ==
    IF items = <<>> THEN [tasksToKeep |-> tasksToKeep, map |-> map]
    ELSE LET taskItem == items[1]
             taskId   == TaskId(taskItem.text, taskItem.filePath)
         IN  IF MapHas(map, taskId)
             THEN KeepItems(Tail(items), MapDelete(map, taskId),
                            Append(tasksToKeep,
                                   [taskItem EXCEPT !.checked = MapGet(map, taskId).completed]))
             ELSE KeepItems(Tail(items), map, tasksToKeep)

\* updateTaskListItems(taskList, tasks, date): the rows kept, then one new
\* row for each task left in the map.  The listeners of the new rows all
\* close over the one variable taskIndex, which the loop leaves at the
\* number of rows; a row kept has the listener it was created with.
updateTaskListItems(items, taskList) ==
    LET kept      == KeepItems(items, NewTaskMap(taskList, <<>>), <<>>)
        taskIndex == Len(kept.tasksToKeep) + Len(kept.map)
    IN  kept.tasksToKeep
            \o [i \in 1..Len(kept.map) |-> TaskItem(kept.map[i].task, taskIndex)]

\* No refresh in flight and none finished.
NoRefresh ==
    [pc |-> "idle", kind |-> "none", date |-> NoDate, startDate |-> NoDate,
     endDate |-> NoDate, status |-> "all"]

\* renderTaskList(date, container) up to `await extractTasks(...)`.
DateRefresh(date) ==
    [pc |-> "extract", kind |-> "date", date |-> date, startDate |-> NoDate,
     endDate |-> NoDate, status |-> "all"]

\* renderTaskListByDateRange(startDate, endDate) up to `await extractTasks(...)`.
RangeRefresh(range) ==
    [pc |-> "extract", kind |-> "range", date |-> NoDate, startDate |-> range.startDate,
     endDate |-> range.endDate, status |-> "all"]

\* The view is not open.
ViewClosed ==
    /\ currentDate = NoDate /\ selectedDate = NoDate /\ taskStatusFilter = "all"
    /\ taskItems = <<>> /\ refresh = NoRefresh

\* No dateUtils call has been made.
NoCall == [fn |-> "none", format |-> <<>>]

\* No refresh overlaps another, the view's two dates are two objects, no
\* checkbox has been toggled, no note writer is in flight, no calendar table
\* is followed and taskRegex is at rest.
NoToggle == [pc |-> "idle", row |-> <<>>, taskId |-> 0, completed |-> FALSE, handed |-> <<>>]
NoScan == [lastIndex |-> 0, passes |-> <<>>]
LateIdle ==
    /\ inflight = <<>> /\ sameDate = FALSE /\ toggle = NoToggle
    /\ ops = <<>> /\ cells = <<>> /\ scan = NoScan

\* No call of parseTokens or of a dateUtils function is under way, and
\* every read succeeds.
NothingElse ==
    /\ readFails = {} /\ ext = NoExtract
    /\ ptokens = <<>> /\ pindex = 0 /\ pstack = <<>> /\ pret = NullNode /\ pmode = "idle"
    /\ darg = NoDate /\ dcall = NoCall /\ dout = NoDate
    /\ LateIdle

----------------------------------------------------------------------------
(* Notes: one note of the vault, the extraction pass that yields the Task  *)
(* objects, and updateTaskInNote as its read and its write.                *)

MaxNoteLines == 2

BuyMilk ==
    <<"B", "u", "y", " ", "m", "i", "l", "k", " ", "%", " ",
      "2", "0", "2", "4", "-", "0", "3", "-", "1", "5">>

\* `- [m] <rawText>`
TaskLine(m, rawText) == <<"-", " ", "[", m, "]", " ">> \o rawText

\* The lines a note is made of: task lines open and completed, two tasks
\* with the same text, and lines that are no task.
NoteLines ==
    { TaskLine(" ", BuyMilk),
      TaskLine(" ", <<"a">>),
      TaskLine("x", <<"a">>),
      TaskLine("X", <<"b", " ", "#", "t">>),
      TaskLine(" ", <<"[", "0", "]">>),
      <<"-", ".", "a">>,
      <<"-", ".", "[", "0", "]">>,
      <<"#", " ", "h">> }

NotePath == <<"n", ".", "m", "d">>

NoteContents ==
    UNION { {JoinWith(ls, <<NL>>) : ls \in [1..n -> NoteLines]} : n \in 1..MaxNoteLines }

IdleUpd == [pc |-> "idle", task |-> <<>>, completed |-> FALSE, content |-> <<>>]

InitNote ==
    /\ tz = 0
    /\ vault \in {<<[path |-> NotePath, content |-> c]>> : c \in NoteContents}
    /\ tasks = <<>>
    /\ upd = IdleUpd
    /\ customFilter = <<>> /\ filterDate = NoDate /\ expression = NullNode /\ filtered = <<>> /\ fpc = "idle"
    /\ ViewClosed
    /\ NothingElse

\* extractTasks(app, settings): one extraction pass over the vault.
ExtractTasks ==
    /\ upd.pc = "idle"
    /\ tasks' = extractBasicTasks(vault)
    /\ UNCHANGED <<tz, vault, upd, filterVars, viewVars, moreVars>>

\* updateTaskInNote(app, task, completed) up to `await app.vault.read(file)`:
\* nothing happens unless task.filePath names a file.
UpdateTaskRead(i, completed) ==
    /\ upd.pc = "idle"
    /\ i \in 1..Len(tasks)
    /\ FileIndex(vault, tasks[i].filePath) # 0
    /\ upd' = [pc |-> "read", task |-> tasks[i], completed |-> completed,
               content |-> vault[FileIndex(vault, tasks[i].filePath)].content]
    /\ UNCHANGED <<tz, vault, tasks, filterVars, viewVars, moreVars>>

\* ... and from the read on: app.vault.modify(file, newContent).
UpdateTaskModify ==
    /\ upd.pc = "read"
    /\ vault' = [vault EXCEPT ![FileIndex(vault, upd.task.filePath)].content =
                    UpdatedContent(upd.content, upd.task, upd.completed)]
    /\ upd' = [upd EXCEPT !.pc = "written"]
    /\ UNCHANGED <<tz, tasks, filterVars, viewVars, moreVars>>

\* updateTaskInNote returns.
UpdateTaskReturn ==
    /\ upd.pc = "written"
    /\ upd' = IdleUpd
    /\ UNCHANGED <<tz, vault, tasks, filterVars, viewVars, moreVars>>

NextNote ==
    \/ ExtractTasks
    \/ \E i \in 1..(2 * MaxNoteLines), completed \in BOOLEAN : UpdateTaskRead(i, completed)
    \/ UpdateTaskModify
    \/ UpdateTaskReturn

SpecNote == InitNote /\ [][NextNote]_vars

RECURSIVE SplitLines(_)
\* content.split("\n")
SplitLines(content) ==
    LET i == IndexOf(content, <<NL>>)
    IN  IF i = 0 THEN <<content>>
        ELSE <<SubSeq(content, 1, i - 1)>> \o SplitLines(SubSeq(content, i + 1, Len(content)))

\* The line is `- [m] <rawText>` for some marker m.
IsTaskLineOf(line, rawText) == Len(line) >= 4 /\ line = TaskLine(line[4], rawText)

\* The lines with line i's bracket contents set for `completed`.
Toggled(lines, i, rawText, completed) ==
    [lines EXCEPT ![i] = TaskLine(IF completed THEN "x" ELSE " ", rawText)]

\* C1: when the note read holds the task's line `- [m] <rawText>`, the
\* content written back is the content read with that line's bracket
\* contents set to `x` (completed) or ` ` (not completed) and every other
\* line unchanged.
C1_ToggleRewritesBracket ==
    LET lines   == SplitLines(upd.content)
        written == vault[FileIndex(vault, upd.task.filePath)].content
        mine    == {i \in 1..Len(lines) : IsTaskLineOf(lines[i], upd.task.rawText)}
    IN  (upd.pc = "written" /\ mine # {}) =>
            \E i \in mine :
                written = JoinWith(Toggled(lines, i, upd.task.rawText, upd.completed), <<NL>>)

----------------------------------------------------------------------------
(* filterTasks applied to a task list, a filter string, a filter date and  *)
(* a host zone.                                                            *)

MaxDueShift == 1

\* UTC offsets of the host, in minutes (New York winter, UTC, Beijing).
Zones == {0 - 300, 0, 480}

BaseDay == DaysFromCivil(2024, 3, 15)

Tag(x) == <<"#">> \o x
Words(ws) == JoinWith(ws, <<" ">>)
Paren(s) == Open \o s \o Close

TagNames == {<<"a">>, <<"b">>}
PathNames == {<<"A">>, <<"B">>}
RuleWords == {Tag(x) : x \in TagNames} \cup PathNames
Operators == {AndTok, OrTok}

\* `!w`
Not(w) == <<"!">> \o w

\* Three rules chained by two operators, without parentheses.
ChainFilters ==
    {Words(<<r1, op1, r2, op2, r3>>) :
        r1 \in RuleWords, op1 \in Operators, r2 \in RuleWords,
        op2 \in Operators, r3 \in RuleWords}

\* An exclude rule alone, and after an include rule.
ExcludeFilters ==
    {Not(w) : w \in RuleWords}
    \cup {Words(<<r1, op, Not(r2)>>) : r1 \in RuleWords, op \in Operators, r2 \in RuleWords}

BlankFilters == {<<>>, <<" ">>, <<" ", " ">>, <<"\t">>, <<NL>>}

\* The filter strings: blank, one rule, two rules joined by an operator, a
\* parenthesised list, a parenthesised operator expression, and a
\* parenthesised expression combined with a third rule.
FilterStrings ==
    BlankFilters
    \cup RuleWords
    \cup {Words(<<r1, op, r2>>) : r1 \in RuleWords, op \in Operators, r2 \in RuleWords}
    \cup {Paren(<<>>)}
    \cup {Paren(Words(<<r1, r2>>)) : r1 \in RuleWords, r2 \in RuleWords}
    \cup {Paren(Words(<<r1, op, r2>>)) : r1 \in RuleWords, op \in Operators, r2 \in RuleWords}
    \cup {Words(<<Paren(Words(<<r1, op1, r2>>)), op2, r3>>) :
             r1 \in RuleWords, op1 \in Operators, r2 \in RuleWords,
             op2 \in Operators, r3 \in RuleWords}
    \cup ChainFilters
    \cup ExcludeFilters

TextInputs ==
    << <<"t">>, <<"t", " ", "#", "a">>, <<"t", " ", "#", "b">>,
       <<"t", " ", "#", "a", " ", "#", "b">>, <<"t", " ", "#", "a", "b">> >>
PathInputs ==
    << <<"A", "/", "n", ".", "m", "d">>, <<"B", "/", "n", ".", "m", "d">>,
       <<"A", "B", "/", "n", ".", "m", "d">>, <<"A">> >>

\* Local wall-clock times of day, in ms: the first two and the last two
\* milliseconds of a day.
LocalTimes == <<0, 1, MsPerDay - 2, MsPerDay - 1>>

MakeTask(text, path, dueDate) ==
    [text |-> text, completed |-> FALSE, filePath |-> path, dueDate |-> dueDate,
     rawText |-> text]

\* Tasks without due date: every text in every path.
UndatedTasks ==
    [i \in 1..(Len(TextInputs) * Len(PathInputs)) |->
        MakeTask(TextInputs[((i - 1) \div Len(PathInputs)) + 1],
                 PathInputs[((i - 1) % Len(PathInputs)) + 1], NoDate)]

\* Tasks due at the local times of the days around BaseDay in the zone, and
\* at the UTC midnights of those days (k = 0).
DatedTasks(zone) ==
    [i \in 1..((2 * MaxDueShift + 1) * (Len(LocalTimes) + 1)) |->
        LET day == BaseDay - MaxDueShift + ((i - 1) \div (Len(LocalTimes) + 1))
            k   == (i - 1) % (Len(LocalTimes) + 1)
        IN  MakeTask(TextInputs[(i % Len(TextInputs)) + 1], PathInputs[(i % 2) + 1],
                     IF k = 0 THEN Instant(day, 0) ELSE FromLocal(day, LocalTimes[k], zone))]

FilterTaskList(zone) == UndatedTasks \o DatedTasks(zone)

\* The filter dates: the clicked day's cell date (local midnight) and a time
\* of day within it (the current time, 14:30).
FilterDates(zone) ==
    {FromLocal(BaseDay, 0, zone), FromLocal(BaseDay, (14 * 60 + 30) * MsPerMinute, zone)}

InitFilter ==
    /\ tz \in Zones
    /\ customFilter \in FilterStrings
    /\ filterDate \in FilterDates(tz)
    /\ tasks = FilterTaskList(tz)
    /\ expression = NullNode
    /\ filtered = <<>>
    /\ fpc = "call"
    /\ vault = <<>> /\ upd = IdleUpd
    /\ ViewClosed
    /\ NothingElse

\* filterTasks(tasks, settings, filterDate)
CallFilterTasks ==
    /\ fpc = "call"
    /\ expression' = parseCustomFilter(customFilter)
    /\ filtered' = filterTasks(tasks, customFilter, filterDate, tz)
    /\ fpc' = "done"
    /\ UNCHANGED <<tz, vault, tasks, upd, customFilter, filterDate, viewVars, moreVars>>

NextFilter == CallFilterTasks

SpecFilter == InitFilter /\ [][NextFilter]_vars

----------------------------------------------------------------------------
(* Properties of filterTasks                                               *)

\* 23:59:59.999 local time on the local day of the date.
EndOfLocalDay(date, zone) == FromLocal(LocalOf(date, zone).day, MsPerDay - 1, zone)

\* The due-date step: no due date, or due no later than the end of the
\* filter date's local day.
DueOk(task) == ~task.dueDate.has \/ DateLE(task.dueDate, EndOfLocalDay(filterDate, tz))

HasTag(task, x) == Includes(task.rawText, Tag(x))
Under(task, p) == task.filePath = p \/ StartsWith(task.filePath, p \o <<"/">>)
\* What a rule word asks of a task: `#x` the tag, otherwise the path.
Asks(task, w) == IF Head(w) = "#" THEN HasTag(task, Tail(w)) ELSE Under(task, w)
IncludeRule(w) ==
    IF Head(w) = "#" THEN RuleNode("include", Tail(w), TRUE) ELSE RuleNode("include", w, FALSE)

Kept(task) == \E j \in 1..Len(filtered) : filtered[j] = task
FilterDone == fpc = "done"

\* C4: with an empty custom filter, filterTasks keeps a task iff it has no
\* due date or its due instant is <= 23:59:59.999 local time on filterDate's
\* day (in order, nothing else added or dropped).
C4_KeepIffDueByEndOfDay ==
    (FilterDone /\ customFilter = <<>>) => filtered = SelectSeq(tasks, DueOk)

\* C4 witness: a task due exactly at 23:59:59.999 is kept and a task due one
\* millisecond later is dropped.
C4_Witness ==
    /\ FilterDone /\ customFilter = <<>>
    /\ \E i, j \in 1..Len(tasks) :
          /\ tasks[i].dueDate = EndOfLocalDay(filterDate, tz) /\ Kept(tasks[i])
          /\ tasks[j].dueDate = AddMs(EndOfLocalDay(filterDate, tz), 1) /\ ~Kept(tasks[j])

\* C6: for `#x and #y` a task passes iff its rawText contains `#x` and `#y`;
\* for `#x or #y` iff it contains at least one of them.
C6_TwoTagRules ==
    FilterDone =>
        \A x \in TagNames, y \in TagNames :
            LET Both(task)   == DueOk(task) /\ HasTag(task, x) /\ HasTag(task, y)
                Either(task) == DueOk(task) /\ (HasTag(task, x) \/ HasTag(task, y))
            IN  /\ customFilter = Words(<<Tag(x), AndTok, Tag(y)>>)
                      => filtered = SelectSeq(tasks, Both)
                /\ customFilter = Words(<<Tag(x), OrTok, Tag(y)>>)
                      => filtered = SelectSeq(tasks, Either)

\* C6 witness: under `#a and #b` a task with both tags is kept and a task
\* with only #b, which passes the due-date step, is dropped.
C6_Witness ==
    /\ FilterDone
    /\ customFilter = Words(<<Tag(<<"a">>), AndTok, Tag(<<"b">>)>>)
    /\ \E i, j \in 1..Len(tasks) :
          /\ HasTag(tasks[i], <<"a">>) /\ HasTag(tasks[i], <<"b">>) /\ Kept(tasks[i])
          /\ ~HasTag(tasks[j], <<"a">>) /\ HasTag(tasks[j], <<"b">>) /\ DueOk(tasks[j])
          /\ ~Kept(tasks[j])

\* C7: `(r1 r2)` parses to a Group whose children are the rules r1 and r2
\* and passes a task iff at least one child does; `()` parses to a Group
\* with no child and passes every task.
C7_ListGroupIsOr ==
    FilterDone =>
        /\ \A r1 \in RuleWords, r2 \in RuleWords :
              LET Either(task) == DueOk(task) /\ (Asks(task, r1) \/ Asks(task, r2))
              IN  customFilter = Paren(Words(<<r1, r2>>)) =>
                      /\ expression = GroupNode(<<IncludeRule(r1), IncludeRule(r2)>>)
                      /\ filtered = SelectSeq(tasks, Either)
        /\ customFilter = Paren(<<>>) =>
              /\ expression = GroupNode(<<>>)
              /\ filtered = SelectSeq(tasks, DueOk)

\* C7 witness: under `(#a #b)` a task with only #b is kept and a task with
\* neither tag, which passes the due-date step, is dropped.
C7_Witness ==
    /\ FilterDone
    /\ customFilter = Paren(Words(<<Tag(<<"a">>), Tag(<<"b">>)>>))
    /\ \E i, j \in 1..Len(tasks) :
          /\ ~HasTag(tasks[i], <<"a">>) /\ HasTag(tasks[i], <<"b">>) /\ Kept(tasks[i])
          /\ ~HasTag(tasks[j], <<"a">>) /\ ~HasTag(tasks[j], <<"b">>) /\ DueOk(tasks[j])
          /\ ~Kept(tasks[j])

\* C8 as claimed: `(#x and #y)` evaluates as the OR of its sub-expressions.
C8_AndGroupIsOr ==
    FilterDone =>
        \A x \in TagNames, y \in TagNames :
            LET Either(task) == DueOk(task) /\ (HasTag(task, x) \/ HasTag(task, y))
            IN  customFilter = Paren(Words(<<Tag(x), AndTok, Tag(y)>>))
                    => filtered = SelectSeq(tasks, Either)

\* C8 amended: `(r1 and r2)` parses to a Group with one child, the logical
\* node `r1 and r2`, and passes a task iff both sub-expressions do.
C8_AndGroupIsAnd ==
    FilterDone =>
        \A r1 \in RuleWords, r2 \in RuleWords :
            LET Both(task) == DueOk(task) /\ Asks(task, r1) /\ Asks(task, r2)
            IN  customFilter = Paren(Words(<<r1, AndTok, r2>>)) =>
                    /\ expression =
                          GroupNode(<<LogicalNode(AndTok, IncludeRule(r1), IncludeRule(r2))>>)
                    /\ filtered = SelectSeq(tasks, Both)

\* C8 witness: under `(#a and #b)` a task with only #a, which passes the
\* due-date step, is dropped and a task with both tags is kept.
C8_Witness ==
    /\ FilterDone
    /\ customFilter = Paren(Words(<<Tag(<<"a">>), AndTok, Tag(<<"b">>)>>))
    /\ \E i, j \in 1..Len(tasks) :
          /\ HasTag(tasks[i], <<"a">>) /\ ~HasTag(tasks[i], <<"b">>) /\ DueOk(tasks[i])
          /\ ~Kept(tasks[i])
          /\ HasTag(tasks[j], <<"a">>) /\ HasTag(tasks[j], <<"b">>) /\ Kept(tasks[j])

\* C9: `(P or Q) and #x` keeps exactly the tasks whose file lies under path
\* P or under path Q and whose text contains #x (and that pass the due-date
\* step of filterTasks).
C9_DocumentedExample ==
    FilterDone =>
        \A p \in PathNames, q \in PathNames, x \in TagNames :
            LET Wanted(task) ==
                    DueOk(task) /\ (Under(task, p) \/ Under(task, q)) /\ HasTag(task, x)
            IN  customFilter = Words(<<Paren(Words(<<p, OrTok, q>>)), AndTok, Tag(x)>>)
                    => filtered = SelectSeq(tasks, Wanted)

\* C9 witness: under `(A or B) and #a` a tagged task under B is kept, an
\* untagged task under A is dropped, and a tagged task under AB is dropped.
C9_Witness ==
    /\ FilterDone
    /\ customFilter =
          Words(<<Paren(Words(<<(<<"A">>), OrTok, (<<"B">>)>>)), AndTok, Tag(<<"a">>)>>)
    /\ \E i, j, k \in 1..Len(tasks) :
          /\ Under(tasks[i], <<"B">>) /\ HasTag(tasks[i], <<"a">>) /\ Kept(tasks[i])
          /\ Under(tasks[j], <<"A">>) /\ ~HasTag(tasks[j], <<"a">>) /\ DueOk(tasks[j])
          /\ ~Kept(tasks[j])
          /\ StartsWith(tasks[k].filePath, <<"A", "B", "/">>) /\ HasTag(tasks[k], <<"a">>)
          /\ DueOk(tasks[k]) /\ ~Kept(tasks[k])

\* C10: an empty or whitespace-only filter string yields no expression, and
\* filterTasks keeps every task that passes the due-date step.
C10_BlankFilterKeepsAll ==
    (FilterDone /\ customFilter \in BlankFilters) =>
        /\ expression = NullNode
        /\ filtered = SelectSeq(tasks, DueOk)

\* C10 witness: under the filter " " a task is kept and a task due after the
\* filter date's day is dropped.
C10_Witness ==
    /\ FilterDone /\ customFilter = <<" ">>
    /\ \E i, j \in 1..Len(tasks) : Kept(tasks[i]) /\ ~DueOk(tasks[j]) /\ ~Kept(tasks[j])

----------------------------------------------------------------------------
(* The open calendar view: the vault is read by each task-list refresh,    *)
(* which a day click, a status button, a week-number cell or the year,     *)
(* quarter or month header starts and whose extraction then completes.     *)
(* The host is at UTC offset tz, and today is 2024-03-15, 14:30 local.     *)

Pad2(n) == IF n < 10 THEN <<"0">> \o ToDecimal(n) ELSE ToDecimal(n)

\* YYYY-MM-DD of a day number.
IsoDay(day) ==
    LET c == CivilFromDays(day)
    IN  ToDecimal(c.y) \o <<"-">> \o Pad2(c.m) \o <<"-">> \o Pad2(c.d)

\* The forms of the due-date token.
DueTokens ==
    << <<"@">>, <<"#">>, <<"d", "u", "e", ":">>, <<"D", "u", "e", ":", " ">>,
       <<"%">>, <<"%", " ">> >>

\* A note of tasks due on the first day of the year 2024 and of its first
\* quarter, on the last day of that quarter and of March, and inside every
\* range clicked (the Buy milk line), and a task without due date.
RangeNote ==
    JoinWith(<< TaskLine(" ", <<"t", " ">> \o DueTokens[1] \o IsoDay(DaysFromCivil(2024, 1, 1))),
                TaskLine("x", <<"t", " ">> \o DueTokens[4] \o IsoDay(DaysFromCivil(2024, 3, 31))),
                TaskLine(" ", BuyMilk),
                TaskLine("x", <<"u", " ", "#", "a">>) >>,
             <<NL>>)

RangeVault == <<[path |-> NotePath, content |-> RangeNote]>>

\* Two notes whose tasks have the same row id `t @2024-03-15-n.md`: the
\* task of n.md is due 2024-03-15, the task of 15-n.md has no due date.
SameIdVault ==
    << [path    |-> NotePath,
        content |-> TaskLine(" ", <<"t", " ", "@">> \o IsoDay(BaseDay))],
       [path    |-> <<"1", "5", "-">> \o NotePath,
        content |-> TaskLine(" ", <<"t", " ", "@", "2", "0", "2", "4", "-", "0", "3">>)] >>

ViewVaults == {RangeVault, SameIdVault}
ViewFilters == {<<>>, Tag(<<"a">>)}
StatusFilters == {"all", "todo", "done"}

\* new Date() at the time the view is used.
Today(zone) == FromLocal(BaseDay, (14 * 60 + 30) * MsPerMinute, zone)

\* The date of the day cell of day d of the displayed month.
DayCell(cur, d, zone) == NewDateYMD(GetFullYear(cur, zone), GetMonth(cur, zone), d, zone)

\* The day cells clicked: the 14th.
ClickDays == {14}

\* The week-number cells clicked: the first row and the row of the 11th.
ClickRows == {0, 2}

\* The view as onOpen leaves it at its first await: constructed today, the
\* calendar built, the first by-date refresh started.
InitView ==
    /\ tz \in Zones
    /\ vault \in ViewVaults
    /\ customFilter \in ViewFilters
    /\ tasks = <<>> /\ upd = IdleUpd
    /\ filterDate = NoDate /\ expression = NullNode /\ filtered = <<>> /\ fpc = "idle"
    /\ currentDate = Today(tz)
    /\ selectedDate = Today(tz)
    /\ taskStatusFilter = "all"
    /\ taskItems = <<>>
    /\ refresh = DateRefresh(Today(tz))
    /\ NothingElse

\* onDayClick(date), date being the Date object of the cell of day d of
\* the displayed month: this.selectedDate and this.currentDate both become
\* that one object.
onDayClick(d) ==
    /\ refresh.pc # "extract"
    /\ d <= DaysInMonth(GetFullYear(currentDate, tz), GetMonth(currentDate, tz) + 1)
    /\ LET date == DayCell(currentDate, d, tz)
       IN  /\ selectedDate' = date
           /\ currentDate' = date
           /\ refresh' = DateRefresh(date)
    /\ sameDate' = TRUE
    /\ UNCHANGED <<tz, noteVars, filterVars, taskStatusFilter, taskItems,
                   extractVars, parseVars, dateVars, inflight, toggle, ops, cells, scan>>

\* The click on a status button: the by-date list is refreshed if a date is
\* selected.
StatusClick(status) ==
    /\ refresh.pc # "extract"
    /\ taskStatusFilter' = status
    /\ refresh' = IF selectedDate.has THEN DateRefresh(selectedDate) ELSE refresh
    /\ UNCHANGED <<tz, noteVars, filterVars, currentDate, selectedDate, taskItems, moreVars>>

\* The click on the year of the header.
YearClick ==
    /\ refresh.pc # "extract"
    /\ refresh' = RangeRefresh(YearRange(currentDate, tz))
    /\ UNCHANGED <<tz, noteVars, filterVars, currentDate, selectedDate, taskStatusFilter, taskItems, moreVars>>

\* The click on the quarter of the header.
QuarterClick ==
    /\ refresh.pc # "extract"
    /\ refresh' = RangeRefresh(QuarterRange(currentDate, tz))
    /\ UNCHANGED <<tz, noteVars, filterVars, currentDate, selectedDate, taskStatusFilter, taskItems, moreVars>>

\* The click on the month of the header.
MonthClick ==
    /\ refresh.pc # "extract"
    /\ refresh' = RangeRefresh(MonthRange(currentDate, tz))
    /\ UNCHANGED <<tz, noteVars, filterVars, currentDate, selectedDate, taskStatusFilter, taskItems, moreVars>>

\* The click on the week-number cell of row index: the selected date is
\* cleared.
WeekClick(index) ==
    /\ refresh.pc # "extract"
    /\ index < RowsNeeded(currentDate, tz)
    /\ selectedDate' = NoDate
    /\ refresh' = RangeRefresh(WeekRange(currentDate, index, tz))
    /\ UNCHANGED <<tz, noteVars, filterVars, currentDate, taskStatusFilter, taskItems, moreVars>>

\* extractTasks resolves: renderTaskList or renderTaskListByDateRange goes
\* on from its await to the end of updateTaskListItems.
RefreshDone ==
    /\ refresh.pc = "extract"
    /\ LET allTasks      == extractBasicTasks(vault)
           filteredTasks ==
               IF refresh.kind = "date"
               THEN TasksByDate(allTasks, customFilter, refresh.date, taskStatusFilter, tz)
               ELSE TasksByDateRange(allTasks, refresh.startDate, refresh.endDate,
                                     taskStatusFilter)
       IN  /\ tasks' = allTasks
           /\ filtered' = filteredTasks
           /\ taskItems' = updateTaskListItems(taskItems, filteredTasks)
    /\ refresh' = [refresh EXCEPT !.pc = "done", !.status = taskStatusFilter]
    /\ UNCHANGED <<tz, vault, upd, customFilter, filterDate, expression, fpc,
                   currentDate, selectedDate, taskStatusFilter, moreVars>>

NextView ==
    \/ \E d \in ClickDays : onDayClick(d)
    \/ \E status \in StatusFilters : StatusClick(status)
    \/ YearClick
    \/ QuarterClick
    \/ MonthClick
    \/ \E index \in ClickRows : WeekClick(index)
    \/ RefreshDone

SpecView == InitView /\ [][NextView]_vars

----------------------------------------------------------------------------
(* Properties of the task lists of the view                                *)

\* The calendar day a due-date token names.
TokenDay(rawText) == NewDateISO(DueDateText(rawText, MatchDueDate(rawText))).day

StatusOk(task, status) ==
    (status = "todo" => ~task.completed) /\ (status = "done" => task.completed)

RangeListDone == refresh.pc = "done" /\ refresh.kind = "range"

\* C2: when a by-range refresh has finished, the tasks it kept are exactly
\* the tasks (passing the status filter) whose due-date token names a
\* calendar day D with startDate's day <= D <= endDate's day, the days of
\* startDate and endDate being their local calendar days, at every UTC offset.
C2_RangeKeepsDueDaysInclusive ==
    RangeListDone =>
        LET firstDay == LocalOf(refresh.startDate, tz).day
            lastDay  == LocalOf(refresh.endDate, tz).day
        IN  \A i \in 1..Len(tasks) :
                (\E j \in 1..Len(filtered) : filtered[j] = tasks[i])
                <=> /\ tasks[i].dueDate.has
                    /\ firstDay <= TokenDay(tasks[i].rawText)
                    /\ TokenDay(tasks[i].rawText) <= lastDay
                    /\ StatusOk(tasks[i], refresh.status)

\* C3: the task extracted from `- [ ] Buy milk % 2024-03-15` is not
\* completed and its dueDate has the local year, month and day 2024, 03, 15
\* at every UTC offset, and a by-date list for a day before 2024-03-15 does
\* not keep it.
C3_DueDateIsLocalDay ==
    /\ \A i \in 1..Len(tasks) :
          tasks[i].rawText = BuyMilk =>
              /\ ~tasks[i].completed
              /\ tasks[i].dueDate.has /\ tasks[i].dueDate.valid
              /\ GetFullYear(tasks[i].dueDate, tz) = 2024
              /\ GetMonth(tasks[i].dueDate, tz) + 1 = 3
              /\ GetDate(tasks[i].dueDate, tz) = 15
    /\ (refresh.pc = "done" /\ refresh.kind = "date"
           /\ LocalOf(refresh.date, tz).day < BaseDay)
          => \A j \in 1..Len(filtered) : filtered[j].rawText # BuyMilk

\* C5: when a by-range refresh has finished, every row of the task list
\* shows a task that has a due date, whatever the range, the status filter
\* and the custom filter string.
C5_RangeListShowsNoUndatedTask ==
    RangeListDone =>
        \A r \in 1..Len(taskItems) :
            \E i \in 1..Len(tasks) :
                /\ tasks[i].text = taskItems[r].text
                /\ tasks[i].filePath = taskItems[r].filePath
                /\ tasks[i].dueDate.has

----------------------------------------------------------------------------
(* parseTokens step by step: the recursive descent of parseExpression,     *)
(* parseLogicalExpression, parsePrimaryExpression and parseRule over the   *)
(* shared cursor, one call, loop test or return at a time.  A frame of     *)
(* pstack is a call in progress and remembers the cursor at its entry.     *)

MaxTokens == 4

\* The tokens a filter is made of: parentheses, operators, a rule.
ParseTokenSet == {Open, Close, AndTok, OrTok, <<"a">>}

TokenSeqs == UNION {[1..n -> ParseTokenSet] : n \in 0..MaxTokens}

\* tokens[index]; undefined (no token is empty) past the end.
TokenAt(i) == IF i < Len(ptokens) THEN ptokens[i + 1] ELSE <<>>

LogicalFrame(stage, left, operator, start) ==
    [fn |-> "logical", stage |-> stage, left |-> left, operator |-> operator,
     expressions |-> <<>>, start |-> start]
GroupFrame(expressions, start) ==
    [fn |-> "group", stage |-> "loop", left |-> NullNode, operator |-> <<>>,
     expressions |-> expressions, start |-> start]

Top == pstack[Len(pstack)]
Pop == SubSeq(pstack, 1, Len(pstack) - 1)

\* The variables parseTokens does not touch.
parseRest == <<tz, noteVars, filterVars, viewVars, extractVars, dateVars, lateVars>>

\* parseTokens(tokens) is called: index = 0, parseExpression() is next.
InitParse ==
    /\ ptokens \in TokenSeqs
    /\ pindex = 0
    /\ pstack = <<>>
    /\ pret = NullNode
    /\ pmode = "logical"
    /\ tz = 0 /\ vault = <<>> /\ tasks = <<>> /\ upd = IdleUpd
    /\ customFilter = <<>> /\ filterDate = NoDate /\ expression = NullNode
    /\ filtered = <<>> /\ fpc = "idle"
    /\ ViewClosed
    /\ readFails = {} /\ ext = NoExtract /\ darg = NoDate /\ dcall = NoCall /\ dout = NoDate
    /\ LateIdle

\* parseExpression() / parseLogicalExpression() is entered: its first
\* statement calls parsePrimaryExpression().
EnterLogical ==
    /\ pmode = "logical"
    /\ pstack' = Append(pstack, LogicalFrame("left", NullNode, <<>>, pindex))
    /\ pmode' = "primary"
    /\ UNCHANGED <<ptokens, pindex, pret, parseRest>>

\* parsePrimaryExpression() is entered: `(` opens a group, anything else
\* (no token included) is handed to parseRule, which returns.
EnterPrimary ==
    /\ pmode = "primary"
    /\ IF TokenAt(pindex) = Open
       THEN /\ pindex' = pindex + 1
            /\ pstack' = Append(pstack, GroupFrame(<<>>, pindex))
            /\ pmode' = "group"
            /\ pret' = pret
       ELSE /\ pindex' = parseRule(ptokens, pindex + 1).index - 1
            /\ pret' = parseRule(ptokens, pindex + 1).node
            /\ pmode' = "return"
            /\ pstack' = pstack
    /\ UNCHANGED <<ptokens, parseRest>>

\* The test of the while loop of a group: another expression, or the end
\* of the group, where a `)` at the cursor is consumed and the group returned.
GroupTest ==
    /\ pmode = "group"
    /\ IF pindex < Len(ptokens) /\ TokenAt(pindex) # Close
       THEN /\ pmode' = "logical"
            /\ UNCHANGED <<pindex, pstack, pret>>
       ELSE /\ pindex' = IF pindex < Len(ptokens) /\ TokenAt(pindex) = Close
                         THEN pindex + 1 ELSE pindex
            /\ pret' = GroupNode(Top.expressions)
            /\ pstack' = Pop
            /\ pmode' = "return"
    /\ UNCHANGED <<ptokens, parseRest>>

\* parseExpression() returns into the loop of a group: expressions.push.
ReturnToGroup ==
    /\ pmode = "return" /\ pstack # <<>> /\ Top.fn = "group"
    /\ pstack' = [pstack EXCEPT ![Len(pstack)].expressions = Append(@, pret)]
    /\ pmode' = "group"
    /\ UNCHANGED <<ptokens, pindex, pret, parseRest>>

\* parsePrimaryExpression() returns into parseLogicalExpression: the node
\* is `left`, or the right operand folded into `left`; then the while test:
\* an operator at the cursor is consumed and the next primary parsed, else
\* `left` is returned.
ReturnToLogical ==
    /\ pmode = "return" /\ pstack # <<>> /\ Top.fn = "logical"
    /\ LET left == IF Top.stage = "left" THEN pret
                   ELSE LogicalNode(Top.operator, Top.left, pret)
       IN  IF pindex < Len(ptokens) /\ TokenAt(pindex) \in {AndTok, OrTok}
           THEN /\ pstack' = [pstack EXCEPT ![Len(pstack)] =
                                 LogicalFrame("right", left, TokenAt(pindex), Top.start)]
                /\ pindex' = pindex + 1
                /\ pmode' = "primary"
                /\ pret' = pret
           ELSE /\ pstack' = Pop
                /\ pret' = left
                /\ pmode' = "return"
                /\ pindex' = pindex
    /\ UNCHANGED <<ptokens, parseRest>>

\* The outermost parseExpression() has returned: parseTokens returns pret.
ParseReturn ==
    /\ pmode = "return" /\ pstack = <<>>
    /\ pmode' = "done"
    /\ UNCHANGED <<ptokens, pindex, pstack, pret, parseRest>>

NextParse ==
    \/ EnterLogical
    \/ EnterPrimary
    \/ GroupTest
    \/ ReturnToGroup
    \/ ReturnToLogical
    \/ ParseReturn

\* parseTokens is synchronous code: it runs on until it returns.
SpecParse == InitParse /\ [][NextParse]_vars /\ WF_vars(NextParse)

RECURSIVE IsExpressionNode(_)
\* An ExpressionNode: a rule, a logical node of two nodes, a group of nodes.
IsExpressionNode(node) ==
    CASE node.type = "rule" -> node.rule.type \in {"include", "exclude"}
      [] node.type = "logical" ->
            /\ node.operator \in {AndTok, OrTok}
            /\ IsExpressionNode(node.left) /\ IsExpressionNode(node.right)
      [] node.type = "group" ->
            \A i \in 1..Len(node.expressions) : IsExpressionNode(node.expressions[i])
      [] OTHER -> FALSE

\* C11: for every token sequence, unbalanced parentheses, leading and
\* trailing operators, a stray `)` and the empty sequence included,
\* parseTokens returns, and what it returns is an expression tree (the one
\* the recursive definition gives); every parsePrimaryExpression call moves
\* the cursor forward at once, and every call that returns leaves the cursor
\* beyond where it was entered.
C11_ParseTerminates ==
    /\ <>(pmode = "done")
    /\ [](pmode = "done" => IsExpressionNode(pret) /\ pret = parseTokens(ptokens))
    /\ [][pmode = "primary" => pindex' > pindex]_vars
    /\ [][Len(pstack') < Len(pstack) => pindex' > Top.start]_vars

\* Parsing `( a and` has returned: an unclosed group and a trailing operator.
C11_Witness ==
    /\ pmode = "done"
    /\ ptokens = <<Open, <<"a">>, AndTok>>
    /\ pret = GroupNode(<<LogicalNode(AndTok, RuleNode("include", <<"a">>, FALSE),
                                      RuleNode("include", <<>>, FALSE))>>)

----------------------------------------------------------------------------
(* Properties of filterTasks: operator chains, path rules, exclude rules   *)

\* C12: `and` and `or` have equal precedence and associate to the left: for
\* a chain `r1 op1 r2 op2 r3` a task passes iff (r1 op1 r2) op2 r3 holds of
\* it, so `a or b and c` is `(a or b) and c` and `a and b or c` is
\* `(a and b) or c`, whatever the three rules say of the task.
C12_ChainFoldsLeft ==
    FilterDone =>
        \A r1 \in RuleWords, r2 \in RuleWords, r3 \in RuleWords,
           op1 \in Operators, op2 \in Operators :
            LET Join(op, x, y) == IF op = AndTok THEN x /\ y ELSE x \/ y
                Wanted(task) ==
                    DueOk(task)
                    /\ Join(op2, Join(op1, Asks(task, r1), Asks(task, r2)), Asks(task, r3))
            IN  customFilter = Words(<<r1, op1, r2, op2, r3>>)
                    => filtered = SelectSeq(tasks, Wanted)

\* C12 witness: under `#a or #b and A` a task with #a outside A is dropped
\* (a or (b and c) would keep it), and under `A and #a or #b` a task with
\* #b outside A is kept.
C12_Witness ==
    /\ FilterDone
    /\ \/ /\ customFilter = Words(<<Tag(<<"a">>), OrTok, Tag(<<"b">>), AndTok, (<<"A">>)>>)
          /\ \E i \in 1..Len(tasks) :
                /\ HasTag(tasks[i], <<"a">>) /\ ~Under(tasks[i], <<"A">>)
                /\ DueOk(tasks[i]) /\ ~Kept(tasks[i])
       \/ /\ customFilter = Words(<<(<<"A">>), AndTok, Tag(<<"a">>), OrTok, Tag(<<"b">>)>>)
          /\ \E i \in 1..Len(tasks) :
                /\ HasTag(tasks[i], <<"b">>) /\ ~Under(tasks[i], <<"A">>) /\ Kept(tasks[i])

\* C13: under a filter that is one path rule V, a task passes iff its
\* filePath equals V or starts with V followed by `/`; a filePath that only
\* begins with the characters of V does not pass.
C13_PathRule ==
    FilterDone =>
        \A p \in PathNames :
            LET Wanted(task) ==
                    DueOk(task)
                    /\ (task.filePath = p \/ StartsWith(task.filePath, p \o <<"/">>))
            IN  customFilter = p => filtered = SelectSeq(tasks, Wanted)

\* C13 witness: under `A` a task of the file `A` and a task of `A/n.md` are
\* kept, a task of `AB/n.md` is dropped.
C13_Witness ==
    /\ FilterDone /\ customFilter = <<"A">>
    /\ \E i, j, k \in 1..Len(tasks) :
          /\ tasks[i].filePath = <<"A">> /\ Kept(tasks[i])
          /\ tasks[j].filePath = <<"A", "/", "n", ".", "m", "d">> /\ Kept(tasks[j])
          /\ tasks[k].filePath = <<"A", "B", "/", "n", ".", "m", "d">>
          /\ DueOk(tasks[k]) /\ ~Kept(tasks[k])

\* C14: a token `!w` parses to an exclude rule with the value and the tag
\* flag of w (the `#` is looked for after the `!` is stripped), and as a
\* filter it keeps, among the tasks passing the due-date step, exactly those
\* the filter w does not keep.
C14_ExcludeNegates ==
    FilterDone =>
        \A w \in RuleWords :
            LET plain == filterTasks(tasks, w, filterDate, tz)
                Wanted(task) ==
                    DueOk(task) /\ ~(\E j \in 1..Len(plain) : plain[j] = task)
            IN  customFilter = Not(w) =>
                    /\ expression = [IncludeRule(w) EXCEPT !.rule.type = "exclude"]
                    /\ filtered = SelectSeq(tasks, Wanted)

\* C14 witness: under `!#a` a task with #a is dropped and one without is
\* kept; under `!A` a task under A is dropped and one elsewhere is kept.
C14_Witness ==
    /\ FilterDone
    /\ \/ /\ customFilter = Not(Tag(<<"a">>))
          /\ \E i, j \in 1..Len(tasks) :
                /\ HasTag(tasks[i], <<"a">>) /\ DueOk(tasks[i]) /\ ~Kept(tasks[i])
                /\ ~HasTag(tasks[j], <<"a">>) /\ Kept(tasks[j])
       \/ /\ customFilter = Not(<<"A">>)
          /\ \E i, j \in 1..Len(tasks) :
                /\ Under(tasks[i], <<"A">>) /\ DueOk(tasks[i]) /\ ~Kept(tasks[i])
                /\ ~Under(tasks[j], <<"A">>) /\ Kept(tasks[j])

----------------------------------------------------------------------------
(* dateUtils: ISO weeks, quarter and formatDate.  dayjs(date) reads the    *)
(* Date in local time; the isoWeek plugin computes the week from the       *)
(* Thursday of the date's week and the first Thursday of its year.         *)

\* dayjs isoWeekday(): 1 is Monday, 7 is Sunday.
IsoWeekday(t, zone) == IF GetDay(t, zone) = 0 THEN 7 ELSE GetDay(t, zone)

\* isoWeek plugin, getCurrentWeekThursday: ins.add(4 - ins.isoWeekday(), 'day')
CurrentWeekThursday(t, zone) == SetDateBy(t, 4 - IsoWeekday(t, zone), zone)

\* isoWeek plugin, getYearFirstThursday: from the start of the year.
YearFirstThursday(year, zone) ==
    LET yearFirstDay == NewDateYMD(year, 0, 1, zone)
        weekday      == IsoWeekday(yearFirstDay, zone)
    IN  SetDateBy(yearFirstDay, 4 - weekday + (IF weekday > 4 THEN 7 ELSE 0), zone)

\* The calendar year taken for the week-year.
IsoWeekYearCalendar(t, zone) == GetFullYear(t, zone)

\* d.isoWeekYear(): the year of the Thursday of the week.
IsoWeekYear(t, zone) == GetFullYear(CurrentWeekThursday(t, zone), zone)

\* a.diff(b, 'week') for a >= b: whole weeks between two instants.
DiffWeeks(a, b) == ((a.day - b.day) + ((a.ms - b.ms) \div MsPerDay)) \div 7

\* d.isoWeek()
IsoWeek(t, zone) ==
    DiffWeeks(CurrentWeekThursday(t, zone),
              YearFirstThursday(IsoWeekYear(t, zone), zone)) + 1

\* The week paired with the calendar year of the date.
getWeekInfoCalendarYear(date, zone) ==
    [week |-> IsoWeek(date, zone), year |-> GetFullYear(date, zone)]

getWeekInfo(date, zone) == [week |-> IsoWeek(date, zone), year |-> IsoWeekYear(date, zone)]

getWeekNumber(date, zone) == getWeekInfo(date, zone).week

\* Math.floor((dayjs(date).month() + 3) / 3)
getQuarter(date, zone) == (GetMonth(date, zone) + 3) \div 3

\* String(n).padStart(2, '0')
PadStart2(s) == IF Len(s) < 2 THEN <<"0">> \o s ELSE s

RECURSIVE RunOf(_, _)
\* Length of the run of character c at the head of s.
RunOf(s, c) == IF s # <<>> /\ Head(s) = c THEN 1 + RunOf(Tail(s), c) ELSE 0

\* Position of the first `]` of s, 0 if none.
CloseBracket(s) == IF \E i \in 1..Len(s) : s[i] = "]"
                   THEN CHOOSE i \in 1..Len(s) : s[i] = "]" /\ \A j \in 1..(i - 1) : s[j] # "]"
                   ELSE 0

\* Utils.z: the offset as +HH:mm; format() uses it with the colon removed
\* for a matched token it has no value for.
ZoneStr(zone) ==
    LET a == IF zone < 0 THEN 0 - zone ELSE zone
    IN  <<IF zone < 0 THEN "-" ELSE "+">> \o PadStart2(ToDecimal(a \div 60))
        \o PadStart2(ToDecimal(a % 60))

RECURSIVE DayjsFormat(_, _, _)
\* d.format(formatStr) for format strings whose letters are among Y, M, D
\* and letters that are no token: /\[([^\]]+)]|Y{1,4}|M{1,4}|D{1,2}|.../g is
\* replaced match by match, `[text]` by text, anything else is copied.
\* (Month names, MMM and MMMM, are not needed by the formats of the model.)
DayjsFormat(t, f, zone) ==
    IF f = <<>> THEN <<>>
    ELSE LET c  == Head(f)
             cb == CloseBracket(f)
             y  == Min(RunOf(f, "Y"), 4)
             m  == Min(RunOf(f, "M"), 4)
             d  == Min(RunOf(f, "D"), 2)
         IN  CASE c = "[" /\ cb > 2 ->
                    SubSeq(f, 2, cb - 1) \o DayjsFormat(t, SubSeq(f, cb + 1, Len(f)), zone)
               [] c = "Y" ->
                    (CASE y = 4 -> ToDecimal(GetFullYear(t, zone))
                       [] y = 2 -> PadStart2(ToDecimal(GetFullYear(t, zone) % 100))
                       [] OTHER -> ZoneStr(zone))
                    \o DayjsFormat(t, SubSeq(f, y + 1, Len(f)), zone)
               [] c = "M" /\ m <= 2 ->
                    (IF m = 2 THEN PadStart2(ToDecimal(GetMonth(t, zone) + 1))
                     ELSE ToDecimal(GetMonth(t, zone) + 1))
                    \o DayjsFormat(t, SubSeq(f, m + 1, Len(f)), zone)
               [] c = "D" ->
                    (IF d = 2 THEN PadStart2(ToDecimal(GetDate(t, zone)))
                     ELSE ToDecimal(GetDate(t, zone)))
                    \o DayjsFormat(t, SubSeq(f, d + 1, Len(f)), zone)
               [] c \notin {"Y", "M", "D"} /\ ~(c = "[" /\ cb > 2) ->
                    <<c>> \o DayjsFormat(t, Tail(f), zone)

\* formatDate(date, format): GGGG, WW and Q are replaced (the first
\* occurrence of each, in this order), then dayjs formats the result.
formatDate(date, format, zone) ==
    LET weekInfo == getWeekInfo(date, zone)
        week     == PadStart2(ToDecimal(weekInfo.week))
        weekYear == weekInfo.year
        r1 == ReplaceFirstString(format, <<"G", "G", "G", "G">>, ToDecimal(weekYear))
        r2 == ReplaceFirstString(r1, <<"W", "W">>, week)
        r3 == ReplaceFirstString(r2, <<"Q">>, ToDecimal(getQuarter(date, zone)))
    IN  DayjsFormat(date, r3, zone)

----------------------------------------------------------------------------
(* dateUtils: the month grid and the month and year shifts                 *)

\* new Date(date.getFullYear(), date.getMonth(), 1).getDay()
getFirstDayOfMonth(date, zone) ==
    GetDay(NewDateYMD(GetFullYear(date, zone), GetMonth(date, zone), 1, zone), zone)

\* new Date(date.getFullYear(), date.getMonth() + 1, 0).getDate()
getDaysInMonth(date, zone) ==
    GetDate(NewDateYMD(GetFullYear(date, zone), GetMonth(date, zone) + 1, 0, zone), zone)

getPrevMonthDaysToShow(firstDayOfMonth) ==
    IF firstDayOfMonth = 0 THEN 6 ELSE firstDayOfMonth - 1

\* Math.ceil((prevMonthDaysToShow + daysInMonth) / 7)
getCalendarRows(prevMonthDaysToShow, daysInMonth) ==
    (prevMonthDaysToShow + daysInMonth + 6) \div 7

\* getCellDate(rowIndex, dayIndex, cur): the date of a cell and
\* whether it lies outside the displayed month.
getCellDate(rowIndex, dayIndex, cur, zone) ==
    LET currentYear         == GetFullYear(cur, zone)
        currentMonth        == GetMonth(cur, zone)
        prevMonthDaysToShow == getPrevMonthDaysToShow(getFirstDayOfMonth(cur, zone))
        daysInMonth         == getDaysInMonth(cur, zone)
        totalCells          == rowIndex * 7 + dayIndex
    IN  IF totalCells < prevMonthDaysToShow
        THEN LET prevMonth     == currentMonth - 1
                 prevMonthYear == IF currentMonth = 0 THEN currentYear - 1 ELSE currentYear
                 prevMonthDays == getDaysInMonth(NewDateYMD(prevMonthYear, prevMonth, 1, zone), zone)
                 day           == prevMonthDays - prevMonthDaysToShow + totalCells + 1
             IN  [date |-> NewDateYMD(prevMonthYear, prevMonth, day, zone), isOtherMonth |-> TRUE]
        ELSE IF totalCells < prevMonthDaysToShow + daysInMonth
        THEN [date |-> NewDateYMD(currentYear, currentMonth,
                                  totalCells - prevMonthDaysToShow + 1, zone),
              isOtherMonth |-> FALSE]
        ELSE LET nextMonth     == currentMonth + 1
                 nextMonthYear == IF currentMonth = 11 THEN currentYear + 1 ELSE currentYear
                 day           == totalCells - prevMonthDaysToShow - daysInMonth + 1
             IN  [date |-> NewDateYMD(nextMonthYear, nextMonth, day, zone), isOtherMonth |-> TRUE]

\* getCalendarMonthData(cur).rowsNeeded
RowsOfMonth(cur, zone) ==
    getCalendarRows(getPrevMonthDaysToShow(getFirstDayOfMonth(cur, zone)),
                    getDaysInMonth(cur, zone))

\* getMonthDates(cur): the rows of seven cells.
getMonthDates(cur, zone) ==
    [row \in 1..RowsOfMonth(cur, zone) |->
        [day \in 1..7 |-> getCellDate(row - 1, day - 1, cur, zone)]]

getPrevMonthDate(date, zone) ==
    LET prevMonth     == GetMonth(date, zone) - 1
        prevMonthYear == IF GetMonth(date, zone) = 0 THEN GetFullYear(date, zone) - 1
                         ELSE GetFullYear(date, zone)
    IN  NewDateYMD(prevMonthYear, prevMonth, GetDate(date, zone), zone)

getNextMonthDate(date, zone) ==
    LET nextMonth     == GetMonth(date, zone) + 1
        nextMonthYear == IF GetMonth(date, zone) = 11 THEN GetFullYear(date, zone) + 1
                         ELSE GetFullYear(date, zone)
    IN  NewDateYMD(nextMonthYear, nextMonth, GetDate(date, zone), zone)

getPrevYearDate(date, zone) ==
    NewDateYMD(GetFullYear(date, zone) - 1, GetMonth(date, zone), GetDate(date, zone), zone)

getNextYearDate(date, zone) ==
    NewDateYMD(GetFullYear(date, zone) + 1, GetMonth(date, zone), GetDate(date, zone), zone)

----------------------------------------------------------------------------
(* EventHandler.parseDateFromFilePath                                      *)

\* /(\d{4})[\-\/\.](\d{1,2})[\-\/\.](\d{1,2})/
dateRegex ==
    <<Atom(Digits, FALSE, "{4}", 1), Atom({"-", "/", "."}, FALSE, "1", 0),
      Atom(Digits, FALSE, "{1,2}", 2), Atom({"-", "/", "."}, FALSE, "1", 0),
      Atom(Digits, FALSE, "{1,2}", 3)>>

\* s.substring(a, b) with 0-based a, b: the arguments are clamped to the
\* string and swapped if a > b.
Substring(s, a, b) ==
    LET ca == Max(0, Min(a, Len(s)))
        cb == Max(0, Min(b, Len(s)))
    IN  SubSeq(s, Min(ca, cb) + 1, Max(ca, cb))

\* The month taken as it is written, without the step to a 0-based month.
parseDateFromFilePathMonthAsWritten(filePath, savePath, zone) ==
    IF ~StartsWith(filePath, savePath) THEN NoDate
    ELSE LET fileName == Substring(filePath, Len(savePath) + 1, Len(filePath) - 3)
             match    == Exec(dateRegex, fileName, 1)
         IN  IF ~match.found THEN NoDate
             ELSE NewDateYMD(ToNumber(Group(fileName, match, 1)),
                             ToNumber(Group(fileName, match, 2)),
                             ToNumber(Group(fileName, match, 3)), zone)

\* parseDateFromFilePath(filePath) with dailyNote.savePath = savePath: null
\* (NoDate) for a path outside savePath or a name without a date.  A year
\* below 100 is taken by the Date constructor as 1900 + year.
parseDateFromFilePath(filePath, savePath, zone) ==
    IF ~StartsWith(filePath, savePath) THEN NoDate
    ELSE LET fileName == Substring(filePath, Len(savePath) + 1, Len(filePath) - 3)
             match    == Exec(dateRegex, fileName, 1)
         IN  IF ~match.found THEN NoDate
             ELSE LET year  == ToNumber(Group(fileName, match, 1))
                      month == ToNumber(Group(fileName, match, 2)) - 1
                      day   == ToNumber(Group(fileName, match, 3))
                  IN  NewDateYMD(IF year <= 99 THEN 1900 + year ELSE year, month, day, zone)

----------------------------------------------------------------------------
(* The dateUtils functions applied to bounded dates.  darg is the Date      *)
(* argument, dcall the function last applied (with its format string for    *)
(* formatDate) and dout what it returned.  Each function is applied to the  *)
(* argument once; parseDateFromFilePath is applied to the name formatDate   *)
(* produced.                                                                *)

FirstYear == 2023
LastYear == 2024

\* Local times of day of the argument: midnight and half an hour before the
\* next midnight.
DateTimes == {0, MsPerDay - 30 * MsPerMinute}

\* Days at the ends of the range 1900..2100, around the century leap-year
\* rule, around the epoch and in 53-week years.
EdgeDays ==
    {DaysFromCivil(1900, 1, 1), DaysFromCivil(1900, 2, 28), DaysFromCivil(1900, 3, 1),
     DaysFromCivil(1900, 12, 31), DaysFromCivil(1969, 12, 31), DaysFromCivil(1970, 1, 1),
     DaysFromCivil(2000, 2, 29), DaysFromCivil(2000, 12, 31), DaysFromCivil(2020, 12, 31),
     DaysFromCivil(2021, 1, 3), DaysFromCivil(2026, 12, 31), DaysFromCivil(2027, 1, 1),
     DaysFromCivil(2100, 2, 28), DaysFromCivil(2100, 3, 1), DaysFromCivil(2100, 12, 31)}

\* The first and the last day of every year of the range of note dates.
RangeFirstYear == 1900
RangeLastYear == 2100
YearEnds ==
    UNION {{DaysFromCivil(y, 1, 1), DaysFromCivil(y, 12, 31)} : y \in RangeFirstYear..RangeLastYear}

\* Every day of FirstYear..LastYear, the edge days and the ends of the years.
DateDays ==
    (DaysFromCivil(FirstYear, 1, 1) .. DaysFromCivil(LastYear, 12, 31))
        \cup EdgeDays \cup YearEnds

\* dailyNote.savePath and the format strings of the note settings.
SavePath == <<"d", "a", "i", "l", "y">>
DayFormat == <<"Y", "Y", "Y", "Y", "-", "M", "M", "-", "D", "D">>
WeekFormat == <<"G", "G", "G", "G", "-", "W", "W">>
QuarterFormat == <<"Q">>
\* DEFAULT_SETTINGS.quarterlyNote.fileNameFormat, and the template with
\* the escaped letter first.
QuarterNoteFormat == <<"Y", "Y", "Y", "Y", "-", "Q", "[", "Q", "]">>
EscapedFirstFormat == <<"[", "Q", "]", "Q">>
DateFormats == {DayFormat, WeekFormat, QuarterFormat, QuarterNoteFormat, EscapedFirstFormat}

Call(fn) == [fn |-> fn, format |-> <<>>]

dateRest == <<tz, noteVars, filterVars, viewVars, extractVars, parseVars, lateVars>>

InitDate ==
    /\ tz \in Zones
    /\ \E day \in DateDays, time \in DateTimes : darg = FromLocal(day, time, tz)
    /\ dcall = NoCall /\ dout = NoDate
    /\ vault = <<>> /\ tasks = <<>> /\ upd = IdleUpd
    /\ customFilter = <<>> /\ filterDate = NoDate /\ expression = NullNode
    /\ filtered = <<>> /\ fpc = "idle"
    /\ ViewClosed
    /\ readFails = {} /\ ext = NoExtract
    /\ ptokens = <<>> /\ pindex = 0 /\ pstack = <<>> /\ pret = NullNode /\ pmode = "idle"
    /\ LateIdle

CallGetWeekInfo ==
    /\ dcall = NoCall
    /\ dcall' = Call("getWeekInfo")
    /\ dout' = getWeekInfo(darg, tz)
    /\ UNCHANGED <<darg, dateRest>>

CallGetMonthDates ==
    /\ dcall = NoCall
    /\ dcall' = Call("getMonthDates")
    /\ dout' = getMonthDates(darg, tz)
    /\ UNCHANGED <<darg, dateRest>>

CallGetPrevMonthDate ==
    /\ dcall = NoCall
    /\ dcall' = Call("getPrevMonthDate")
    /\ dout' = getPrevMonthDate(darg, tz)
    /\ UNCHANGED <<darg, dateRest>>

CallGetNextMonthDate ==
    /\ dcall = NoCall
    /\ dcall' = Call("getNextMonthDate")
    /\ dout' = getNextMonthDate(darg, tz)
    /\ UNCHANGED <<darg, dateRest>>

CallFormatDate ==
    \E format \in DateFormats :
        /\ dcall = NoCall
        /\ dcall' = [fn |-> "formatDate", format |-> format]
        /\ dout' = formatDate(darg, format, tz)
        /\ UNCHANGED <<darg, dateRest>>

\* The note named by formatDate is looked up again by its path.
CallParseDateFromFilePath ==
    /\ dcall = [fn |-> "formatDate", format |-> DayFormat]
    /\ dcall' = Call("parseDateFromFilePath")
    /\ dout' = parseDateFromFilePath(SavePath \o <<"/">> \o dout \o <<".", "m", "d">>,
                                     SavePath, tz)
    /\ UNCHANGED <<darg, dateRest>>

NextDate ==
    \/ CallGetWeekInfo
    \/ CallGetMonthDates
    \/ CallGetPrevMonthDate
    \/ CallGetNextMonthDate
    \/ CallFormatDate
    \/ CallParseDateFromFilePath

SpecDate == InitDate /\ [][NextDate]_vars

----------------------------------------------------------------------------
(* Properties of the dateUtils functions                                   *)

\* The local calendar day of the argument, and the Monday of its week.
ArgDay == LocalOf(darg, tz).day
WeekdayOf(day) == ((day + 3) % 7) + 1
MondayOf(day) == day - (WeekdayOf(day) - 1)
AtNoon(day) == FromLocal(day, MsPerDay \div 2, tz)

\* ISO 8601 by the ordinal-day rule: a year has 53 weeks when it starts on a
\* Thursday, or is a leap year starting on a Wednesday, and the week of a
\* day is (ordinal - weekday + 10) div 7, falling into the last week of the
\* year before when that is 0 and into week 1 of the next year when it
\* exceeds the weeks of the year.
WeeksInYear(y) ==
    LET first == WeekdayOf(DaysFromCivil(y, 1, 1))
    IN  IF first = 4 \/ (IsLeap(y) /\ first = 3) THEN 53 ELSE 52

Iso8601(day) ==
    LET y       == CivilFromDays(day).y
        ordinal == day - DaysFromCivil(y, 1, 1) + 1
        w       == (ordinal - WeekdayOf(day) + 10) \div 7
    IN  IF w < 1 THEN [week |-> WeeksInYear(y - 1), year |-> y - 1]
        ELSE IF w > WeeksInYear(y) THEN [week |-> 1, year |-> y + 1]
        ELSE [week |-> w, year |-> y]

\* C15: getWeekInfo returns the ISO-8601 week, in 1..53, and the ISO
\* week-year of the local day of its argument (2023-01-01 is week 52 of
\* 2022), and the seven days Monday..Sunday of the argument's week all get
\* the pair the argument gets.
C15_WeekInfoIsIso8601 ==
    dcall.fn = "getWeekInfo" =>
        /\ dout = Iso8601(ArgDay)
        /\ dout.week \in 1..53
        /\ ArgDay = DaysFromCivil(2023, 1, 1) => dout = [week |-> 52, year |-> 2022]
        /\ \A k \in 0..6 : getWeekInfo(AtNoon(MondayOf(ArgDay) + k), tz) = dout

C15_Witness ==
    /\ dcall.fn = "getWeekInfo"
    /\ ArgDay = DaysFromCivil(2023, 1, 1)
    /\ dout = [week |-> 52, year |-> 2022]

\* The first day of the month of a day, and the number of days of that month.
MonthStart(day) == DaysFromCivil(CivilFromDays(day).y, CivilFromDays(day).m, 1)
MonthLength(day) == DaysInMonth(CivilFromDays(day).y, CivilFromDays(day).m)

\* C16: for every month, getMonthDates returns ceil((leading + daysInMonth)/7)
\* rows of 7 cells whose dates are the consecutive calendar days from the
\* Monday on or before the 1st (so leading cells are the last days of the
\* month before, December of the previous year for January, and trailing
\* cells the first days of the month after), with isOtherMonth false exactly
\* on the days of the displayed month; February 2024 has 5 rows running from
\* January 29 to March 3.
C16_MonthGridIsConsecutive ==
    dcall.fn = "getMonthDates" =>
        LET first   == MonthStart(ArgDay)
            leading == WeekdayOf(first) - 1
            rows    == (leading + MonthLength(ArgDay) + 6) \div 7
        IN  /\ Len(dout) = rows
            /\ \A r \in 1..rows :
                   /\ Len(dout[r]) = 7
                   /\ \A c \in 1..7 :
                          LET day == MondayOf(first) + (r - 1) * 7 + (c - 1)
                          IN  /\ LocalOf(dout[r][c].date, tz).day = day
                              /\ dout[r][c].isOtherMonth
                                     = (day \notin first..(first + MonthLength(ArgDay) - 1))
            /\ first = DaysFromCivil(2024, 2, 1) =>
                   /\ rows = 5
                   /\ LocalOf(dout[1][1].date, tz).day = DaysFromCivil(2024, 1, 29)
                   /\ LocalOf(dout[5][7].date, tz).day = DaysFromCivil(2024, 3, 3)

\* Months counted from year 0: consecutive months differ by one.
MonthIndex(day) == CivilFromDays(day).y * 12 + (CivilFromDays(day).m - 1)

\* C17: getPrevMonthDate(d) is a date in the calendar month immediately
\* before the month of d and getNextMonthDate(d) one in the month
\* immediately after, across the turn of the year (December of Y-1 before
\* January of Y, January of Y+1 after December of Y), whatever the day of
\* the month of d.
C17_MonthShiftIsAdjacentMonth ==
    /\ dcall.fn = "getPrevMonthDate" =>
           MonthIndex(LocalOf(dout, tz).day) = MonthIndex(ArgDay) - 1
    /\ dcall.fn = "getNextMonthDate" =>
           MonthIndex(LocalOf(dout, tz).day) = MonthIndex(ArgDay) + 1

\* C18: the name formatDate(date, "YYYY-MM-DD") gives a note, read back by
\* parseDateFromFilePath from the path <savePath>/<name>.md, yields a Date
\* with the year, month and day of the local day of date, for the days of
\* 1900-01-01..2100-12-31.
C18_DayNameRoundTrips ==
    dcall.fn = "parseDateFromFilePath" =>
        /\ dout.has /\ dout.valid
        /\ GetFullYear(dout, tz) = CivilFromDays(ArgDay).y
        /\ GetMonth(dout, tz) + 1 = CivilFromDays(ArgDay).m
        /\ GetDate(dout, tz) = CivilFromDays(ArgDay).d

C18_Witness ==
    /\ dcall.fn = "parseDateFromFilePath"
    /\ ArgDay = DaysFromCivil(2100, 12, 31)
    /\ LocalOf(dout, tz).day = ArgDay

\* The ISO week name of a day: week-year, hyphen, two-digit week.
WeekName(day) == ToDecimal(Iso8601(day).year) \o <<"-">> \o Pad2(Iso8601(day).week)

\* C19: formatDate puts the ISO week-year for GGGG, the two-digit ISO week
\* for WW and the quarter digit floor(month/3)+1 for Q, and the generic pass
\* leaves them as they are: formatDate(d, "GGGG-WW") is the ISO week name of
\* the local day of d (2025-01 for 2024-12-30), the same for the seven days
\* of the week of d and another one for the days a week before and after,
\* and formatDate(d, "Q") is the quarter digit 1..4.
C19_WeekAndQuarterTokens ==
    /\ dcall = [fn |-> "formatDate", format |-> WeekFormat] =>
           /\ dout = WeekName(ArgDay)
           /\ ArgDay = DaysFromCivil(2024, 12, 30) => dout = <<"2", "0", "2", "5", "-", "0", "1">>
           /\ \A k \in 0..6 : formatDate(AtNoon(MondayOf(ArgDay) + k), WeekFormat, tz) = dout
           /\ \A k \in 0..6 :
                  /\ formatDate(AtNoon(MondayOf(ArgDay) + 7 + k), WeekFormat, tz) # dout
                  /\ formatDate(AtNoon(MondayOf(ArgDay) - 7 + k), WeekFormat, tz) # dout
    /\ dcall = [fn |-> "formatDate", format |-> QuarterFormat] =>
           /\ dout = ToDecimal(((CivilFromDays(ArgDay).m - 1) \div 3) + 1)
           /\ dout \in {<<"1">>, <<"2">>, <<"3">>, <<"4">>}

C19_Witness ==
    /\ dcall = [fn |-> "formatDate", format |-> WeekFormat]
    /\ ArgDay = DaysFromCivil(2024, 12, 30)
    /\ dout = <<"2", "0", "2", "5", "-", "0", "1">>

----------------------------------------------------------------------------
(* extractBasicTasks over a vault some of whose files cannot be read.  The *)
(* call is followed from one `await app.vault.read(file)` to the next.     *)

MaxFiles == 3

FilePaths == <<<<"a", ".", "m", "d">>, <<"b", ".", "m", "d">>, <<"c", ".", "m", "d">>,
               <<"d", ".", "m", "d">>, <<"e", ".", "m", "d">>>>

\* A note with one task, one with two tasks and a line between them, and
\* one with no task.
FileContents ==
    { TaskLine(" ", <<"a">>),
      JoinWith(<<TaskLine("x", BuyMilk), <<"#", " ", "h">>, TaskLine(" ", <<"b">>)>>, <<NL>>),
      <<"#", " ", "h">> }

Vaults ==
    UNION { {[i \in 1..n |-> [path |-> FilePaths[i], content |-> c[i]]] :
                 c \in [1..n -> FileContents]} : n \in 0..Min(MaxFiles, Len(FilePaths)) }

extractRest == <<tz, vault, upd, filterVars, viewVars, readFails, parseVars, dateVars, lateVars>>

InitExtract ==
    /\ tz = 0
    /\ vault \in Vaults
    /\ readFails \in SUBSET {vault[i].path : i \in 1..Len(vault)}
    /\ tasks = <<>> /\ upd = IdleUpd /\ ext = NoExtract
    /\ customFilter = <<>> /\ filterDate = NoDate /\ expression = NullNode
    /\ filtered = <<>> /\ fpc = "idle"
    /\ ViewClosed
    /\ ptokens = <<>> /\ pindex = 0 /\ pstack = <<>> /\ pret = NullNode /\ pmode = "idle"
    /\ darg = NoDate /\ dcall = NoCall /\ dout = NoDate
    /\ LateIdle

\* extractBasicTasks(app) is called: allFiles is listed, tasks is empty.
ExtractCall ==
    /\ ext.pc = "idle"
    /\ ext' = [pc |-> "loop", index |-> 0, tasks |-> <<>>]
    /\ UNCHANGED <<tasks, extractRest>>

\* One pass of the for loop: the read of the next file settles and, when it
\* resolves, the while loop pushes the tasks of the content.
ExtractFile ==
    /\ ext.pc = "loop"
    /\ ext.index < Len(vault)
    /\ LET pass == ReadFile(vault[ext.index + 1], readFails)
       IN  ext' = IF pass.thrown
                  THEN [ext EXCEPT !.pc = "failed"]
                  ELSE [ext EXCEPT !.index = @ + 1, !.tasks = @ \o pass.pushed]
    /\ UNCHANGED <<tasks, extractRest>>

\* return tasks
ExtractReturn ==
    /\ ext.pc = "loop"
    /\ ext.index = Len(vault)
    /\ ext' = [ext EXCEPT !.pc = "done"]
    /\ tasks' = ext.tasks
    /\ UNCHANGED extractRest

NextExtract ==
    \/ ExtractCall
    \/ ExtractFile
    \/ ExtractReturn

SpecExtract == InitExtract /\ [][NextExtract]_vars

\* The files whose read resolves, in listing order.
Readable(files) == SelectSeq(files, LAMBDA f : f.path \notin readFails)

\* C20: whatever reads reject, extractBasicTasks does not fail: a file
\* whose read rejects is skipped and the files after it are still read (the
\* loop has pushed the tasks of the readable files among those it has
\* passed, and goes on to the end of the listing), so that what is returned
\* is the tasks of the readable files, file after file in listing order and
\* in line order within a file.
C20_UnreadableFilesAreSkipped ==
    /\ ext.pc \in {"idle", "loop", "done"}
    /\ ext.pc = "loop" =>
           /\ ext.index \in 0..Len(vault)
           /\ ext.tasks = extractBasicTasks(Readable(SubSeq(vault, 1, ext.index)))
    /\ ext.pc = "done" =>
           /\ ext.index = Len(vault)
           /\ tasks = extractBasicTasks(Readable(vault))

C20_Witness ==
    /\ ext.pc = "done"
    /\ Len(vault) = 3
    /\ readFails = {vault[2].path}
    /\ vault[2].content = TaskLine(" ", <<"a">>)
    /\ Len(tasks) = 3
    /\ tasks[1].filePath = vault[1].path
    /\ tasks[2].filePath = vault[3].path /\ tasks[2].text = BuyMilk
    /\ tasks[3].filePath = vault[3].path /\ tasks[3].text = <<"b">>

----------------------------------------------------------------------------
(* Task-list refreshes that overlap.  Every day click and every click on   *)
(* the month of the header starts renderTaskList or                         *)
(* renderTaskListByDateRange, which suspends at `await extractTasks(...)`;  *)
(* the handlers do not wait for one another, and the extractions resolve   *)
(* in any order.  `refresh` is the refresh started last.                   *)

MaxInflight == 2

\* The day cells clicked when refreshes overlap: the day before the due day
\* of the Buy milk task and the due day.
RaceDays == {14, 15}

raceRest == <<tz, vault, upd, customFilter, filterDate, expression, fpc, taskStatusFilter,
              extractVars, parseVars, dateVars, sameDate, toggle, ops, cells, scan>>

InitRace ==
    /\ tz = 0
    /\ vault = RangeVault
    /\ customFilter = <<>>
    /\ tasks = <<>> /\ upd = IdleUpd
    /\ filterDate = NoDate /\ expression = NullNode /\ filtered = <<>> /\ fpc = "idle"
    /\ currentDate = Today(tz)
    /\ selectedDate = Today(tz)
    /\ taskStatusFilter = "all"
    /\ taskItems = <<>>
    /\ refresh = DateRefresh(Today(tz))
    /\ readFails = {} /\ ext = NoExtract
    /\ ptokens = <<>> /\ pindex = 0 /\ pstack = <<>> /\ pret = NullNode /\ pmode = "idle"
    /\ darg = NoDate /\ dcall = NoCall /\ dout = NoDate
    /\ inflight = <<DateRefresh(Today(tz))>>
    /\ sameDate = FALSE /\ toggle = NoToggle /\ ops = <<>> /\ cells = <<>> /\ scan = NoScan

\* onDayClick(date) while other refreshes may be in flight.
DayClickStarts(d) ==
    /\ Len(inflight) < MaxInflight
    /\ LET date == DayCell(currentDate, d, tz)
       IN  /\ selectedDate' = date
           /\ currentDate' = date
           /\ refresh' = DateRefresh(date)
           /\ inflight' = Append(inflight, DateRefresh(date))
    /\ UNCHANGED <<tasks, filtered, taskItems, raceRest>>

\* The click on the month of the header while other refreshes may be in
\* flight.
MonthClickStarts ==
    /\ Len(inflight) < MaxInflight
    /\ refresh' = RangeRefresh(MonthRange(currentDate, tz))
    /\ inflight' = Append(inflight, RangeRefresh(MonthRange(currentDate, tz)))
    /\ UNCHANGED <<tasks, filtered, taskItems, currentDate, selectedDate, raceRest>>

\* The tasks renderTaskList or renderTaskListByDateRange hands to
\* updateTaskListItems for the request r.
ListFor(r, allTasks) ==
    IF r.kind = "date"
    THEN TasksByDate(allTasks, customFilter, r.date, taskStatusFilter, tz)
    ELSE TasksByDateRange(allTasks, r.startDate, r.endDate, taskStatusFilter)

\* The extraction of the i-th refresh in flight resolves: the refresh goes
\* on from its await to the end of updateTaskListItems.
RefreshResolves(i) ==
    /\ i \in 1..Len(inflight)
    /\ LET allTasks      == extractBasicTasks(vault)
           filteredTasks == ListFor(inflight[i], allTasks)
       IN  /\ tasks' = allTasks
           /\ filtered' = filteredTasks
           /\ taskItems' = updateTaskListItems(taskItems, filteredTasks)
    /\ inflight' = SubSeq(inflight, 1, i - 1) \o SubSeq(inflight, i + 1, Len(inflight))
    /\ refresh' = IF Len(inflight) = 1
                  THEN [refresh EXCEPT !.pc = "done", !.status = taskStatusFilter]
                  ELSE refresh
    /\ UNCHANGED <<currentDate, selectedDate, raceRest>>

NextRace ==
    \/ \E d \in RaceDays : DayClickStarts(d)
    \/ MonthClickStarts
    \/ \E i \in 1..MaxInflight : RefreshResolves(i)

SpecRace == InitRace /\ [][NextRace]_vars

\* The rows displayed, as the set of their <<text, filePath>>.
RowsShown == {<<taskItems[i].text, taskItems[i].filePath>> : i \in 1..Len(taskItems)}
RowsOf(list) == {<<list[i].text, list[i].filePath>> : i \in 1..Len(list)}

\* C21: once every overlapping refresh has finished, the list displayed is
\* the one computed for the refresh started last (the current selection): a
\* refresh that was superseded while in flight does not replace it.
C21_SupersededRefreshIsDiscarded ==
    inflight = <<>> =>
        /\ filtered = ListFor(refresh, extractBasicTasks(vault))
        /\ RowsShown = RowsOf(ListFor(refresh, extractBasicTasks(vault)))

\* C22: whenever no refresh is in flight, the rows displayed have passed the
\* status filter as it stands: none is checked under `todo`, all are
\* checked under `done`, and under `all` the rows (by their row ids) are the
\* whole by-date or by-range result shown; this also after a status button is
\* clicked while a week, month, quarter or year list is displayed.
C22_StatusFilterIsFinalPass ==
    refresh.pc = "done" =>
        /\ \A i \in 1..Len(taskItems) :
               /\ taskStatusFilter = "todo" => ~taskItems[i].checked
               /\ taskStatusFilter = "done" => taskItems[i].checked
        /\ taskStatusFilter = "all" =>
               {TaskId(taskItems[i].text, taskItems[i].filePath) : i \in 1..Len(taskItems)}
                   = {TaskId(t[1], t[2]) : t \in RowsOf(ListFor(refresh, extractBasicTasks(vault)))}

\* The quarter digit of the local day of the argument.
QuarterDigit == ToDecimal(((CivilFromDays(ArgDay).m - 1) \div 3) + 1)

\* C23: a bracketed segment of the template comes out verbatim, the
\* substitution of GGGG, WW and Q leaving it alone: formatDate(d, "[Q]Q") is
\* the letter Q followed by the quarter digit of d, and the default
\* quarterly name "YYYY-Q[Q]" is year, hyphen, quarter digit, letter Q.
C23_BracketsAreVerbatim ==
    /\ dcall = [fn |-> "formatDate", format |-> EscapedFirstFormat] =>
           dout = <<"Q">> \o QuarterDigit
    /\ dcall = [fn |-> "formatDate", format |-> QuarterNoteFormat] =>
           dout = ToDecimal(CivilFromDays(ArgDay).y) \o <<"-">> \o QuarterDigit \o <<"Q">>

----------------------------------------------------------------------------
(* taskService.ts: createTaskInNote                                        *)

\* taskParts.join(" ") after `- [ ] `: the status, the text, the creation
\* date, the due date and the priority, each as the task settings ask.  The
\* hammer emoji is written "^" and the calendar emoji "%".
FullTaskText(taskText, date, today, taskSettings, zone) ==
    LET taskParts ==
            (IF taskSettings.defaultStatus # <<>> THEN <<taskSettings.defaultStatus>> ELSE <<>>)
            \o <<taskText>>
            \o (IF taskSettings.includeCreationDate
                THEN << <<"^", " ">> \o formatDate(today, DayFormat, zone) >> ELSE <<>>)
            \o (IF taskSettings.includeDueDate
                THEN << <<"%", " ">> \o formatDate(date, DayFormat, zone) >> ELSE <<>>)
            \o (IF taskSettings.defaultPriority # <<>>
                THEN << <<"[", "#">> \o taskSettings.defaultPriority \o <<"]">> >> ELSE <<>>)
    IN  <<"-", " ", "[", " ", "]", " ">> \o JoinWith(taskParts, <<" ">>)

\* The lookahead (?=^#|$) under the m flag at position pos (1-based, the
\* next character to read): a `#` that begins a line, or the end of a line.
SectionLookahead(content, pos) ==
    \/ /\ pos <= Len(content) /\ content[pos] = "#"
       /\ (pos = 1 \/ content[pos - 1] = NL)
    \/ pos = Len(content) + 1
    \/ /\ pos <= Len(content) /\ content[pos] = NL

RECURSIVE SectionLazy(_, _)
\* ([sS]*?) then the lookahead, from pos on: the end (exclusive) of the
\* shortest run that the lookahead follows, 0 if there is none.  The
\* template literal cooks `[\s\S]` to `[sS]`.
SectionLazy(content, pos) ==
    IF SectionLookahead(content, pos) THEN pos
    ELSE IF pos <= Len(content) /\ content[pos] \in {"s", "S"} THEN SectionLazy(content, pos + 1)
    ELSE 0

RECURSIVE SectionMatchFrom(_, _, _)
\* content.match(sectionRegex) for an insertSection without pattern
\* characters: the leftmost position where the heading text and the rest of
\* the pattern match.
SectionMatchFrom(content, insertSection, from) ==
    IF from + Len(insertSection) - 1 > Len(content) THEN [found |-> FALSE, index |-> 0, end |-> 0]
    ELSE IF /\ SubSeq(content, from, from + Len(insertSection) - 1) = insertSection
            /\ SectionLazy(content, from + Len(insertSection)) # 0
         THEN [found |-> TRUE, index |-> from,
               end |-> SectionLazy(content, from + Len(insertSection))]
         ELSE SectionMatchFrom(content, insertSection, from + 1)

\* newContent of createTaskInNote for the content read.
CreatedContent(content, fullTaskText, insertSettings) ==
    LET insertSection == insertSettings.insertSection
        sectionMatch  == SectionMatchFrom(content, insertSection, 1)
    IN  IF sectionMatch.found
        THEN LET sectionStart   == sectionMatch.index - 1
                 sectionEnd     == sectionMatch.end - 1
                 sectionHeader  == insertSection
                 sectionContent == SubSeq(content, sectionStart + Len(sectionHeader) + 1,
                                          sectionEnd)
             IN  IF insertSettings.insertPosition = "first"
                 THEN Substring(content, 0, sectionStart + Len(sectionHeader))
                      \o <<NL>> \o fullTaskText \o sectionContent
                      \o Substring(content, sectionEnd, Len(content))
                 ELSE Substring(content, 0, sectionEnd)
                      \o <<NL>> \o fullTaskText
                      \o Substring(content, sectionEnd, Len(content))
        ELSE content \o <<NL, NL>> \o insertSection \o <<NL>> \o fullTaskText

----------------------------------------------------------------------------
(* The writers of a note: updateTaskInNote and createTaskInNote, each a     *)
(* read, a computation on what was read and a modify.  Calls are not        *)
(* queued: a second one may read before the first has written.  The ops    *)
(* are kept in the order of their reads, with what they read and wrote.     *)

MaxOps == 2

\* taskSettings.noteInsertSettings.insertSection, with T for the default
\* heading text.
InsertSection == <<"#", "#", " ", "T">>
OtherHeading == <<"#", " ", "h">>

\* Notes whose section has a task and ends the note, has a task and is
\* followed by a heading, is empty at the end of the note, is empty before
\* a heading.
WriterNotes ==
    { JoinWith(<<InsertSection, TaskLine(" ", <<"a">>)>>, <<NL>>),
      JoinWith(<<InsertSection, TaskLine(" ", <<"a">>), OtherHeading, TaskLine("x", <<"b">>)>>,
               <<NL>>),
      JoinWith(<<OtherHeading, TaskLine(" ", <<"a">>), InsertSection>>, <<NL>>),
      JoinWith(<<InsertSection, OtherHeading>>, <<NL>>) }

\* Task settings with no status, dates or priority added to the line.
PlainTaskSettings ==
    [defaultStatus |-> <<>>, includeCreationDate |-> FALSE, includeDueDate |-> FALSE,
     defaultPriority |-> <<>>]

NewTaskText == <<"n">>

NoTask == MakeTask(<<>>, <<>>, NoDate)

UpdateOp(task, completed, content) ==
    [kind |-> "update", pc |-> "read", content |-> content, task |-> task,
     completed |-> completed, fullTaskText |-> <<>>, insertPosition |-> "none",
     newContent |-> <<>>]

CreateOp(fullTaskText, insertPosition, content) ==
    [kind |-> "create", pc |-> "read", content |-> content, task |-> NoTask,
     completed |-> FALSE, fullTaskText |-> fullTaskText, insertPosition |-> insertPosition,
     newContent |-> <<>>]

\* What the op computes from a content and hands to app.vault.modify.
NewContentOf(op, content) ==
    IF op.kind = "update" THEN UpdatedContent(content, op.task, op.completed)
    ELSE CreatedContent(content, op.fullTaskText,
                        [insertSection |-> InsertSection, insertPosition |-> op.insertPosition])

writersRest == <<tz, tasks, upd, filterVars, viewVars, extractVars, parseVars, dateVars,
                 inflight, sameDate, toggle, cells, scan>>

InitWriters ==
    /\ tz = 0
    /\ vault \in {<<[path |-> NotePath, content |-> c]>> : c \in WriterNotes}
    /\ tasks = extractBasicTasks(vault)
    /\ upd = IdleUpd
    /\ customFilter = <<>> /\ filterDate = NoDate /\ expression = NullNode
    /\ filtered = <<>> /\ fpc = "idle"
    /\ ViewClosed
    /\ readFails = {} /\ ext = NoExtract
    /\ ptokens = <<>> /\ pindex = 0 /\ pstack = <<>> /\ pret = NullNode /\ pmode = "idle"
    /\ darg = NoDate /\ dcall = NoCall /\ dout = NoDate
    /\ inflight = <<>> /\ sameDate = FALSE /\ toggle = NoToggle /\ cells = <<>> /\ scan = NoScan
    /\ ops = <<>>

\* updateTaskInNote(app, task, completed) up to `await app.vault.read(file)`.
UpdateStarts(i, completed) ==
    /\ Len(ops) < MaxOps
    /\ i \in 1..Len(tasks)
    /\ FileIndex(vault, tasks[i].filePath) # 0
    /\ ops' = Append(ops, UpdateOp(tasks[i], completed,
                                   vault[FileIndex(vault, tasks[i].filePath)].content))
    /\ UNCHANGED <<vault, writersRest>>

\* createTaskInNote(app, taskText, date, settings, "note", path) up to
\* `await app.vault.read(file)`.
CreateStarts(insertPosition) ==
    /\ Len(ops) < MaxOps
    /\ FileIndex(vault, NotePath) # 0
    /\ ops' = Append(ops, CreateOp(FullTaskText(NewTaskText, Today(tz), Today(tz),
                                                PlainTaskSettings, tz),
                                   insertPosition, vault[FileIndex(vault, NotePath)].content))
    /\ UNCHANGED <<vault, writersRest>>

\* The read of op k has resolved: newContent is computed from the content
\* read and app.vault.modify(file, newContent) writes it.
WriterModifies(k) ==
    /\ k \in 1..Len(ops)
    /\ ops[k].pc = "read"
    /\ LET newContent == NewContentOf(ops[k], ops[k].content)
       IN  /\ vault' = [vault EXCEPT ![1].content = newContent]
           /\ ops' = [ops EXCEPT ![k].pc = "written", ![k].newContent = newContent]
    /\ UNCHANGED writersRest

NextWriters ==
    \/ \E i \in 1..2, completed \in BOOLEAN : UpdateStarts(i, completed)
    \/ \E insertPosition \in {"first", "last"} : CreateStarts(insertPosition)
    \/ \E k \in 1..MaxOps : WriterModifies(k)

SpecWriters == InitWriters /\ [][NextWriters]_vars

\* The note as lines: the index of the heading line of the section and of
\* the last line of the section (the line before the next heading line, or
\* the last line of the note).
HeadingLine(lines) ==
    IF \E i \in 1..Len(lines) : lines[i] = InsertSection
    THEN CHOOSE i \in 1..Len(lines) :
             lines[i] = InsertSection /\ \A j \in 1..(i - 1) : lines[j] # InsertSection
    ELSE 0

SectionLastLine(lines) ==
    LET h       == HeadingLine(lines)
        IsHead(j) == lines[j] # <<>> /\ lines[j][1] = "#"
    IN  IF \E j \in (h + 1)..Len(lines) : IsHead(j)
        THEN (CHOOSE j \in (h + 1)..Len(lines) :
                  IsHead(j) /\ \A l \in (h + 1)..(j - 1) : ~IsHead(l)) - 1
        ELSE Len(lines)

InsertedAfter(lines, at, line) ==
    JoinWith(SubSeq(lines, 1, at) \o <<line>> \o SubSeq(lines, at + 1, Len(lines)), <<NL>>)

\* C24: for a note that has the section heading, the content
\* createTaskInNote writes is the content it read with the new task line
\* put after the last line of the section (before the next heading or at
\* the end of the note) for `last`, and directly under the heading for
\* `first`, every other line as it was and where it was.
C24_TaskInsertedAtSectionEnd ==
    \A k \in 1..Len(ops) :
        (ops[k].kind = "create" /\ ops[k].pc = "written"
             /\ HeadingLine(SplitLines(ops[k].content)) # 0) =>
            LET lines == SplitLines(ops[k].content)
            IN  ops[k].newContent =
                    InsertedAfter(lines,
                                  IF ops[k].insertPosition = "first" THEN HeadingLine(lines)
                                  ELSE SectionLastLine(lines),
                                  ops[k].fullTaskText)

\* C28: when two writers of one note have both written, the note is what
\* the two changes give one after the other, in one order or the other,
\* starting from the content the first of them read: no change is lost.
C28_NoLostUpdate ==
    (Len(ops) = 2 /\ \A k \in 1..2 : ops[k].pc = "written") =>
        \/ vault[1].content = NewContentOf(ops[2], NewContentOf(ops[1], ops[1].content))
        \/ vault[1].content = NewContentOf(ops[1], NewContentOf(ops[2], ops[1].content))

----------------------------------------------------------------------------
(* CalendarView.ts: the navigation buttons.  They change this.currentDate  *)
(* in place with setFullYear and setMonth and call renderCalendar.          *)

\* d.setMonth(monthIndex): the day of the month and the time of day are
\* kept and the result is normalised (monthIndex -1 or 12, a day past the
\* end of the month).
SetMonth(t, monthIndex, zone) ==
    LET y == GetFullYear(t, zone) + monthIndex \div 12
        m == (monthIndex % 12) + 1
    IN  FromLocal(DaysFromCivil(y, m, 1) + GetDate(t, zone) - 1, LocalOf(t, zone).ms, zone)

\* d.setFullYear(year)
SetFullYear(t, year, zone) ==
    FromLocal(DaysFromCivil(year, GetMonth(t, zone) + 1, 1) + GetDate(t, zone) - 1,
              LocalOf(t, zone).ms, zone)

\* EventHandler.handleNavigationClick(direction, unit, currentDate, ...):
\* the date handed to onUpdateDate.  CalendarView does not call it.
handleNavigationClick(direction, unit, cur, zone) ==
    LET by == IF direction = "prev" THEN 0 - 1 ELSE 1
    IN  CASE unit = "year"    -> SetFullYear(cur, GetFullYear(cur, zone) + by, zone)
          [] unit = "month"   -> SetMonth(cur, GetMonth(cur, zone) + by, zone)
          [] unit = "quarter" -> SetMonth(cur, GetMonth(cur, zone) + 3 * by, zone)

\* The years displayed: the year of today and MaxNavYears after it.
MaxNavYears == 1

\* The day cells clicked.
NavDays == {14, 31}

\* renderCalendar rebuilds the whole structure, the task list with it, when
\* the year, the month or the number of rows displayed has changed.
NeedsFullRebuild(was, now, zone) ==
    \/ GetFullYear(was, zone) # GetFullYear(now, zone)
    \/ GetMonth(was, zone) # GetMonth(now, zone)
    \/ RowsNeeded(was, zone) # RowsNeeded(now, zone)

\* A navigation button has changed the Date object of this.currentDate to
\* newDate and calls renderCalendar: a full rebuild, which leaves an empty
\* task list, or updateCalendarContent, whose updateIndicators refreshes
\* the by-date list if a date is selected.
Navigate(newDate) ==
    /\ GetFullYear(newDate, tz) - GetFullYear(Today(tz), tz) \in 0..MaxNavYears
    /\ currentDate' = newDate
    /\ selectedDate' = IF sameDate THEN newDate ELSE selectedDate
    /\ taskItems' = IF NeedsFullRebuild(currentDate, newDate, tz) THEN <<>> ELSE taskItems
    /\ refresh' = IF ~NeedsFullRebuild(currentDate, newDate, tz) /\ selectedDate'.has
                  THEN DateRefresh(selectedDate') ELSE refresh
    /\ UNCHANGED <<tz, noteVars, filterVars, taskStatusFilter, moreVars>>

\* prevYearBtn (by = -1), nextYearBtn (by = 1)
YearButton(by) ==
    /\ refresh.pc # "extract"
    /\ Navigate(SetFullYear(currentDate, GetFullYear(currentDate, tz) + by, tz))

\* prevQuarterBtn, nextQuarterBtn
QuarterButton(by) ==
    /\ refresh.pc # "extract"
    /\ LET currentQuarter == GetMonth(currentDate, tz) \div 3
           targetMonth    == currentQuarter * 3 + 3 * by
       IN  Navigate(SetMonth(currentDate, targetMonth, tz))

\* prevMonthBtn, nextMonthBtn
MonthButton(by) ==
    /\ refresh.pc # "extract"
    /\ Navigate(SetMonth(currentDate, GetMonth(currentDate, tz) + by, tz))

\* todayBtn: two new Date objects.
TodayClick ==
    /\ refresh.pc # "extract"
    /\ selectedDate' = Today(tz)
    /\ currentDate' = Today(tz)
    /\ sameDate' = FALSE
    /\ taskItems' = IF NeedsFullRebuild(currentDate, Today(tz), tz) THEN <<>> ELSE taskItems
    /\ refresh' = IF ~NeedsFullRebuild(currentDate, Today(tz), tz)
                  THEN DateRefresh(Today(tz)) ELSE refresh
    /\ UNCHANGED <<tz, noteVars, filterVars, taskStatusFilter,
                   extractVars, parseVars, dateVars, inflight, toggle, ops, cells, scan>>

InitNav ==
    /\ tz = 0
    /\ vault = RangeVault
    /\ customFilter = <<>>
    /\ tasks = <<>> /\ upd = IdleUpd
    /\ filterDate = NoDate /\ expression = NullNode /\ filtered = <<>> /\ fpc = "idle"
    /\ currentDate = Today(tz)
    /\ selectedDate = Today(tz)
    /\ taskStatusFilter = "all"
    /\ taskItems = <<>>
    /\ refresh = DateRefresh(Today(tz))
    /\ NothingElse

NextNav ==
    \/ \E d \in NavDays : onDayClick(d)
    \/ \E index \in ClickRows : WeekClick(index)
    \/ \E by \in {0 - 1, 1} : YearButton(by)
    \/ \E by \in {0 - 1, 1} : QuarterButton(by)
    \/ \E by \in {0 - 1, 1} : MonthButton(by)
    \/ TodayClick
    \/ RefreshDone

SpecNav == InitNav /\ [][NextNav]_vars

\* C25: only a day click, a week-number click or the Today button changes
\* the selected date: the year, quarter and month buttons leave it as the
\* last of those set it.
C25_NavigationKeepsSelectedDate ==
    [][selectedDate' # selectedDate =>
           \/ \E d \in NavDays : onDayClick(d)
           \/ \E index \in ClickRows : WeekClick(index)
           \/ TodayClick]_vars

\* C26: the next-month button shows the month after the displayed one and
\* the previous-month button the month before it, whatever the day of the
\* month of the current date.
C26_MonthButtonMovesOneMonth ==
    [][\A by \in {0 - 1, 1} :
           MonthButton(by) =>
               MonthIndex(LocalOf(currentDate', tz).day)
                   = MonthIndex(LocalOf(currentDate, tz).day) + by]_vars

----------------------------------------------------------------------------
(* CalendarView.ts: the checkbox of a task row and handleTaskToggle.        *)

\* A note with two tasks due today, the first open, the second done.
ToggleNote ==
    JoinWith(<< TaskLine(" ", <<"a", " ">> \o DueTokens[1] \o IsoDay(BaseDay)),
                TaskLine("x", <<"b", " ">> \o DueTokens[1] \o IsoDay(BaseDay)) >>,
             <<NL>>)

InitToggle ==
    /\ tz = 0
    /\ vault = <<[path |-> NotePath, content |-> ToggleNote]>>
    /\ customFilter = <<>>
    /\ tasks = <<>> /\ upd = IdleUpd
    /\ filterDate = NoDate /\ expression = NullNode /\ filtered = <<>> /\ fpc = "idle"
    /\ currentDate = Today(tz)
    /\ selectedDate = Today(tz)
    /\ taskStatusFilter = "all"
    /\ taskItems = <<>>
    /\ refresh = DateRefresh(Today(tz))
    /\ NothingElse

toggleRest == <<tz, tasks, upd, filterVars, currentDate, selectedDate, taskStatusFilter,
                extractVars, parseVars, dateVars, inflight, sameDate, ops, cells, scan>>

\* The checkbox of row r is clicked: it flips, and its change listener
\* calls handleTaskToggle(taskIndex, checkbox.checked), which runs to
\* `await extractTasks(...)` if a date is selected and returns if not.
CheckboxChange(r) ==
    /\ refresh.pc # "extract"
    /\ toggle.pc # "extract"
    /\ r \in 1..Len(taskItems)
    /\ LET completed == ~taskItems[r].checked
       IN  /\ taskItems' = [taskItems EXCEPT ![r].checked = completed]
           /\ toggle' = [pc        |-> IF selectedDate.has THEN "extract" ELSE "done",
                         row       |-> <<taskItems[r]>>,
                         taskId    |-> taskItems[r].taskIndex,
                         completed |-> completed,
                         handed    |-> <<>>]
    /\ UNCHANGED <<vault, refresh, toggleRest>>

\* extractTasks resolves in handleTaskToggle: the by-date list of the
\* selected date is computed again, the task at index taskId of it, if
\* there is one, is handed to updateTaskInNote, and refreshTaskList starts
\* a by-date refresh.
ToggleExtracted ==
    /\ toggle.pc = "extract"
    /\ refresh.pc # "extract"
    /\ LET allTasks      == extractBasicTasks(vault)
           filteredTasks == TasksByDate(allTasks, customFilter, selectedDate,
                                        taskStatusFilter, tz)
           found         == selectedDate.has /\ toggle.taskId < Len(filteredTasks)
           task          == filteredTasks[toggle.taskId + 1]
       IN  IF found
           THEN /\ toggle' = [toggle EXCEPT !.pc = "done", !.handed = <<task>>]
                /\ vault' = [vault EXCEPT ![FileIndex(vault, task.filePath)].content =
                                 UpdatedContent(@, task, toggle.completed)]
                /\ refresh' = DateRefresh(selectedDate)
           ELSE /\ toggle' = [toggle EXCEPT !.pc = "done"]
                /\ UNCHANGED <<vault, refresh>>
    /\ UNCHANGED <<taskItems, toggleRest>>

NextToggle ==
    \/ \E status \in StatusFilters : StatusClick(status)
    \/ MonthClick
    \/ \E index \in ClickRows : WeekClick(index)
    \/ \E d \in ClickDays : onDayClick(d)
    \/ RefreshDone
    \/ \E r \in 1..2 : CheckboxChange(r)
    \/ ToggleExtracted

SpecToggle == InitToggle /\ [][NextToggle]_vars

\* C27: when handleTaskToggle has run for the checkbox of a row, the task
\* it handed to updateTaskInNote is the task shown in that row, with the
\* row's text and path, and no other task was handed on.
C27_ToggleUpdatesTheRowsTask ==
    toggle.pc = "done" =>
        /\ Len(toggle.handed) = 1
        /\ toggle.handed[1].text = toggle.row[1].text
        /\ toggle.handed[1].filePath = toggle.row[1].filePath

----------------------------------------------------------------------------
(* calendarRenderer.ts: the day cells of the displayed month and their     *)
(* indicators, and the file-change handler that updates one of them.        *)

\* /^\s*([-\*\d]+\.?)\s*\[([ xX])\]/gm
dayTaskRegex ==
    <<Bol, Space("*"), Atom({"-", "*"} \cup Digits, FALSE, "+", 1), Atom({"."}, FALSE, "?", 0),
      Space("*"), Lit("["), Atom({" ", "x", "X"}, FALSE, "1", 2), Lit("]")>>

\* `${dailySettings.savePath}/${dailyFileName}.md`
DailyNotePath(date, zone) ==
    SavePath \o <<"/">> \o formatDate(date, DayFormat, zone) \o <<".", "m", "d">>

\* Of the day cells of a month the model follows those of the 14th and the
\* 15th, which every month has.
CellDays == <<14, 15>>

\* The .day-cell elements outside .other-month as buildDayCell leaves
\* them, in document order: the day number and an empty .day-indicators.
BuiltCells(cur, zone) ==
    [i \in 1..Len(CellDays) |->
        [dayNumber |-> CellDays[i], hasNote |-> FALSE, hasTask |-> FALSE, selected |-> FALSE]]

\* IndicatorRenderer.getDayCellByDate(container, date): the index of the
\* first cell whose day number is date.getDate(), 0 for null.
getDayCellByDate(dayCells, date, zone) ==
    IF \E i \in 1..Len(dayCells) : dayCells[i].dayNumber = GetDate(date, zone)
    THEN CHOOSE i \in 1..Len(dayCells) :
             /\ dayCells[i].dayNumber = GetDate(date, zone)
             /\ \A j \in 1..(i - 1) : dayCells[j].dayNumber # GetDate(date, zone)
    ELSE 0

\* content.match(taskRegex) of the note at index finds a task line.
HasTaskLine(files, index) ==
    index # 0 /\ Exec(dayTaskRegex, files[index].content, 1).found

\* hasNote and hasTask of the daily note of a date.
NoteIndicators(files, dailyNotePath) ==
    [hasNote |-> FileIndex(files, dailyNotePath) # 0,
     hasTask |-> HasTaskLine(files, FileIndex(files, dailyNotePath))]

DayIndicators(files, date, zone) == NoteIndicators(files, DailyNotePath(date, zone))

\* updateDayIndicators(cell, hasNote, hasTask)
updateDayIndicators(cell, data) ==
    [cell EXCEPT !.hasNote = data.hasNote, !.hasTask = data.hasTask]

UpdateCellAt(dayCells, dayCell, data) ==
    IF dayCell = 0 THEN dayCells
    ELSE [dayCells EXCEPT ![dayCell] = updateDayIndicators(@, data)]

\* IndicatorRenderer.updateSingleDayIndicator(container, date)
updateSingleDayIndicator(dayCells, files, date, zone) ==
    UpdateCellAt(dayCells, getDayCellByDate(dayCells, date, zone),
                 DayIndicators(files, date, zone))

\* IndicatorRenderer.updateAllDayIndicators(container, currentDate)
updateAllDayIndicators(dayCells, files, cur, zone) ==
    [i \in 1..Len(dayCells) |->
        updateDayIndicators(dayCells[i],
                            DayIndicators(files,
                                          NewDateYMD(GetFullYear(cur, zone), GetMonth(cur, zone),
                                                     dayCells[i].dayNumber, zone),
                                          zone))]

SelectCellAt(dayCells, dayCell) ==
    IF dayCell = 0 THEN dayCells ELSE [dayCells EXCEPT ![dayCell].selected = TRUE]

\* IndicatorRenderer.updateDaySelection(container, selectedDate): the mark
\* is taken from every cell and put on the cell found for selectedDate.
updateDaySelection(dayCells, selected, zone) ==
    SelectCellAt([i \in 1..Len(dayCells) |-> [dayCells[i] EXCEPT !.selected = FALSE]],
                 IF selected.has THEN getDayCellByDate(dayCells, selected, zone) ELSE 0)

\* The months displayed: the month of today and MaxMonthsAway either side.
MaxMonthsAway == 1

\* The daily notes that come and go (14 February and 14 March 2024), and
\* what happens to them: written with a text, or deleted.
NotePaths ==
    { SavePath \o <<"/">> \o IsoDay(DaysFromCivil(2024, 2, 14)) \o <<".", "m", "d">>,
      SavePath \o <<"/">> \o IsoDay(DaysFromCivil(2024, 3, 14)) \o <<".", "m", "d">> }
NoteChanges ==
    { [kind |-> "write", content |-> <<"x">>],
      [kind |-> "write", content |-> TaskLine(" ", <<"a">>)],
      [kind |-> "delete", content |-> <<>>] }

cellsRest == <<tz, tasks, upd, filterVars, taskItems, extractVars, parseVars, dateVars,
               inflight, toggle, ops, scan>>

\* The view as onOpen leaves it at its first await.
InitCells ==
    /\ tz = 0
    /\ vault = <<>>
    /\ customFilter = <<>>
    /\ tasks = <<>> /\ upd = IdleUpd
    /\ filterDate = NoDate /\ expression = NullNode /\ filtered = <<>> /\ fpc = "idle"
    /\ currentDate = Today(tz)
    /\ selectedDate = Today(tz)
    /\ taskStatusFilter = "all"
    /\ taskItems = <<>>
    /\ refresh = DateRefresh(Today(tz))
    /\ readFails = {} /\ ext = NoExtract
    /\ ptokens = <<>> /\ pindex = 0 /\ pstack = <<>> /\ pret = NullNode /\ pmode = "idle"
    /\ darg = NoDate /\ dcall = NoCall /\ dout = NoDate
    /\ inflight = <<>> /\ sameDate = FALSE /\ toggle = NoToggle /\ ops = <<>> /\ scan = NoScan
    /\ cells = updateDaySelection(BuiltCells(Today(tz), tz), Today(tz), tz)

\* The vault after the change of the note at path.
VaultAfter(files, path, change) ==
    IF change.kind = "delete" THEN SelectSeq(files, LAMBDA file : file.path # path)
    ELSE IF FileIndex(files, path) = 0
    THEN Append(files, [path |-> path, content |-> change.content])
    ELSE [files EXCEPT ![FileIndex(files, path)].content = change.content]

\* onUpdateIndicator(date) for the date parsed from the path, if any.
CellsAfterChange(dayCells, files, date, zone) ==
    IF date.has THEN updateSingleDayIndicator(dayCells, files, date, zone) ELSE dayCells

\* The daily note at path is created, modified or deleted, and the vault
\* event reaches CalendarView.handleFileChange, which has
\* EventHandler.handleFileChange update the cell for the date parsed from
\* the path and then refresh the task list.
FileChanged(path, change) ==
    /\ refresh.pc # "extract"
    /\ vault' = VaultAfter(vault, path, change)
    /\ vault' # vault
    /\ cells' = CellsAfterChange(cells, vault', parseDateFromFilePath(path, SavePath, tz), tz)
    /\ refresh' = IF selectedDate.has THEN DateRefresh(selectedDate) ELSE refresh
    /\ UNCHANGED <<currentDate, selectedDate, sameDate, taskStatusFilter, cellsRest>>

\* A month button: the whole structure is rebuilt for the new month and
\* updateDaySelection marks the selected day.
CellsMonthButton(by) ==
    /\ refresh.pc # "extract"
    /\ currentDate' = SetMonth(currentDate, GetMonth(currentDate, tz) + by, tz)
    /\ MonthIndex(LocalOf(currentDate', tz).day) - MonthIndex(LocalOf(Today(tz), tz).day)
           \in (0 - MaxMonthsAway)..MaxMonthsAway
    /\ NeedsFullRebuild(currentDate, currentDate', tz)
    /\ selectedDate' = IF sameDate THEN currentDate' ELSE selectedDate
    /\ cells' = updateDaySelection(BuiltCells(currentDate', tz), selectedDate', tz)
    /\ taskItems' = <<>>
    /\ UNCHANGED <<tz, noteVars, filterVars, taskStatusFilter, refresh, sameDate,
                   extractVars, parseVars, dateVars, inflight, toggle, ops, scan>>

\* A status button: renderCalendar finds nothing to rebuild, and
\* updateCalendarContent draws all the indicators of the month again.
CellsStatusClick(status) ==
    /\ refresh.pc # "extract"
    /\ taskStatusFilter' = status
    /\ cells' = updateDaySelection(updateAllDayIndicators(cells, vault, currentDate, tz),
                                   selectedDate, tz)
    /\ refresh' = IF selectedDate.has THEN DateRefresh(selectedDate) ELSE refresh
    /\ UNCHANGED <<vault, currentDate, selectedDate, sameDate, cellsRest>>

\* onDayClick(date) with the cells.
CellsDayClick(d) ==
    /\ refresh.pc # "extract"
    /\ \E i \in 1..Len(cells) : cells[i].dayNumber = d
    /\ selectedDate' = DayCell(currentDate, d, tz)
    /\ currentDate' = selectedDate'
    /\ cells' = updateDaySelection(cells, selectedDate', tz)
    /\ refresh' = DateRefresh(selectedDate')
    /\ sameDate' = TRUE
    /\ UNCHANGED <<vault, taskStatusFilter, cellsRest>>

NextCells ==
    \/ \E path \in NotePaths, change \in NoteChanges : FileChanged(path, change)
    \/ \E by \in {0 - 1, 1} : CellsMonthButton(by)
    \/ \E status \in {"all", "todo"} : CellsStatusClick(status)
    \/ \E d \in ClickDays : CellsDayClick(d)
    \/ RefreshDone

SpecCells == InitCells /\ [][NextCells]_vars

Dots(dayCells) == [i \in 1..Len(dayCells) |-> <<dayCells[i].hasNote, dayCells[i].hasTask>>]

\* C29: a change of a daily note dated outside the displayed month leaves
\* the indicators of every displayed cell as they were, and the cell
\* marked as selected is the cell of the selected date itself, year, month
\* and day, never the cell of the same day number in another month.
C29_OnlyTheCellOfTheDateIsTouched ==
    [][/\ \A path \in NotePaths :
              (/\ \E change \in NoteChanges : FileChanged(path, change)
               /\ MonthIndex(LocalOf(parseDateFromFilePath(path, SavePath, tz), tz).day)
                      # MonthIndex(LocalOf(currentDate, tz).day))
                  => Dots(cells') = Dots(cells)
       /\ \A i \in 1..Len(cells') :
              cells'[i].selected =>
                  /\ selectedDate'.has
                  /\ LocalOf(selectedDate', tz).day
                         = LocalOf(NewDateYMD(GetFullYear(currentDate', tz),
                                              GetMonth(currentDate', tz),
                                              cells'[i].dayNumber, tz), tz).day]_vars

----------------------------------------------------------------------------
(* regexUtils.ts: taskRegex is one RegExp object with the g flag, and its  *)
(* lastIndex is shared by every extractBasicTasks call.  Calls overlap at   *)
(* `await app.vault.read(file)`; between two awaits a call runs alone.      *)

\* The exec of a global RegExp that leaves lastIndex where it was when it
\* finds no match.
RegExpExecKeepsLastIndex(atoms, s, lastIndex) ==
    IF lastIndex > Len(s) THEN [found |-> FALSE, m |-> NoMatch, lastIndex |-> lastIndex]
    ELSE IF Exec(atoms, s, lastIndex + 1).found
         THEN [found |-> TRUE, m |-> Exec(atoms, s, lastIndex + 1),
               lastIndex |-> Exec(atoms, s, lastIndex + 1).end - 1]
         ELSE [found |-> FALSE, m |-> NoMatch, lastIndex |-> lastIndex]

\* regex.exec(s) of a RegExp with the g flag: the search starts at
\* lastIndex; a match sets lastIndex to its end, no match sets it to 0.
RegExpExec(atoms, s, lastIndex) ==
    IF lastIndex > Len(s) THEN [found |-> FALSE, m |-> NoMatch, lastIndex |-> 0]
    ELSE IF Exec(atoms, s, lastIndex + 1).found
         THEN [found |-> TRUE, m |-> Exec(atoms, s, lastIndex + 1),
               lastIndex |-> Exec(atoms, s, lastIndex + 1).end - 1]
         ELSE [found |-> FALSE, m |-> NoMatch, lastIndex |-> 0]

RECURSIVE WhileLoop(_, _, _)
\* while ((match = taskRegex.exec(content)) !== null) { tasks.push(...) },
\* entered with taskRegex.lastIndex = lastIndex: the tasks pushed and the
\* lastIndex the loop leaves.
WhileLoop(path, content, lastIndex) ==
    IF ~RegExpExec(taskRegex, content, lastIndex).found
    THEN [pushed |-> <<>>, lastIndex |-> RegExpExec(taskRegex, content, lastIndex).lastIndex]
    ELSE [pushed    |-> <<TaskOfMatch(path, content,
                                      RegExpExec(taskRegex, content, lastIndex).m)>>
                          \o WhileLoop(path, content,
                                       RegExpExec(taskRegex, content, lastIndex).lastIndex).pushed,
          lastIndex |-> WhileLoop(path, content,
                                  RegExpExec(taskRegex, content, lastIndex).lastIndex).lastIndex]

MaxPasses == 2

\* Vaults of two notes.
ScanVaults == {v \in Vaults : Len(v) = 2}

scanRest == <<tz, vault, tasks, upd, filterVars, viewVars, extractVars, parseVars, dateVars,
              inflight, sameDate, toggle, ops, cells>>

InitScan ==
    /\ tz = 0
    /\ vault \in ScanVaults
    /\ readFails \in SUBSET {vault[i].path : i \in 1..Len(vault)}
    /\ tasks = <<>> /\ upd = IdleUpd /\ ext = NoExtract
    /\ customFilter = <<>> /\ filterDate = NoDate /\ expression = NullNode
    /\ filtered = <<>> /\ fpc = "idle"
    /\ ViewClosed
    /\ ptokens = <<>> /\ pindex = 0 /\ pstack = <<>> /\ pret = NullNode /\ pmode = "idle"
    /\ darg = NoDate /\ dcall = NoCall /\ dout = NoDate
    /\ LateIdle

\* extractBasicTasks(app) is called while other calls may be under way.
ScanCall ==
    /\ Len(scan.passes) < MaxPasses
    /\ scan' = [scan EXCEPT !.passes = Append(@, [pc |-> "loop", index |-> 0, tasks |-> <<>>])]
    /\ UNCHANGED scanRest

\* The read of the next file of call i settles.  A read that rejects is
\* caught; one that resolves is followed by the while loop, which starts
\* from the lastIndex the shared taskRegex has and runs to its end.
ScanFile(i) ==
    /\ i \in 1..Len(scan.passes)
    /\ scan.passes[i].pc = "loop"
    /\ scan.passes[i].index < Len(vault)
    /\ scan' =
         IF vault[scan.passes[i].index + 1].path \in readFails
         THEN [scan EXCEPT !.passes[i].index = @ + 1]
         ELSE [scan EXCEPT
                 !.passes[i].index = @ + 1,
                 !.passes[i].tasks =
                     @ \o WhileLoop(vault[scan.passes[i].index + 1].path,
                                    vault[scan.passes[i].index + 1].content,
                                    scan.lastIndex).pushed,
                 !.lastIndex =
                     WhileLoop(vault[scan.passes[i].index + 1].path,
                               vault[scan.passes[i].index + 1].content,
                               scan.lastIndex).lastIndex]
    /\ UNCHANGED scanRest

\* return tasks
ScanReturn(i) ==
    /\ i \in 1..Len(scan.passes)
    /\ scan.passes[i].pc = "loop"
    /\ scan.passes[i].index = Len(vault)
    /\ scan' = [scan EXCEPT !.passes[i].pc = "done"]
    /\ UNCHANGED scanRest

NextScan ==
    \/ ScanCall
    \/ \E i \in 1..MaxPasses : ScanFile(i)
    \/ \E i \in 1..MaxPasses : ScanReturn(i)

SpecScan == InitScan /\ [][NextScan]_vars

\* C30: taskRegex.lastIndex is 0 whenever a call is suspended, so every
\* call, overlapping others or not, scans each readable document from its
\* beginning: the tasks it has pushed are all the tasks of the readable
\* files it has passed, and what it returns is all the tasks of the
\* readable files of the vault.
C30_EveryPassScansFromTheBeginning ==
    /\ scan.lastIndex = 0
    /\ \A i \in 1..Len(scan.passes) :
           /\ scan.passes[i].tasks
                  = extractBasicTasks(Readable(SubSeq(vault, 1, scan.passes[i].index)))
           /\ scan.passes[i].pc = "done" =>
                  scan.passes[i].tasks = extractBasicTasks(Readable(vault))

\* Two overlapping calls over two readable notes, the first with two task
\* lines: the second call has returned all three tasks while the first,
\* called before it, is still between its two reads.
C30_Witness ==
    /\ Len(scan.passes) = 2
    /\ readFails = {}
    /\ Len(extractBasicTasks(<<vault[1]>>)) = 2
    /\ scan.passes[1].pc = "loop" /\ scan.passes[1].index = 1
    /\ Len(scan.passes[1].tasks) = 2
    /\ scan.passes[2].pc = "done"
    /\ Len(scan.passes[2].tasks) = 3

====
